---------------------------- MODULE Spec2Model ----------------------------
(***************************************************************************)
(* Model of components/gfx/display_list/mod.rs: stacking-context trees,    *)
(* the display-list builder (CSS 2.1 Appendix E ordering) and the          *)
(* display-list traversal cursor.                                          *)
(*                                                                         *)
(* Lengths are app units (Au) that are whole CSS pixels, so that the       *)
(* Au <-> f32 pixel conversions of the source are exact.                   *)
(***************************************************************************)
EXTENDS Integers, Sequences, FiniteSets, TLC

VARIABLES
    contexts,               \* stacking contexts owned by layout, not yet attached to a parent
    next_id,                \* number of stacking contexts created so far (ids are handed out in order)
    phase,                  \* "layout" until DisplayList::new has run, then "assembled"
    root_stacking_context,  \* argument of DisplayList::new (kept for reference)
    all_items,              \* argument of DisplayList::new (kept for reference)
    list,                   \* DisplayList.list
    traversal,              \* the DisplayListTraversal, or NoTraversal
    returned,               \* what next() has returned so far: list indices, None for None
    made_by,                \* the constructor that made the traversal
    target_id,              \* the stacking_context_id given to new_partial, or None
    skipped,                \* the calls of skip_to_end_of_stacking_context so far
    frames,                 \* the activations of draw_with_state or hit_test_contents, innermost last
    painted,                \* the draw calls issued to the paint context so far (a set)
    decided,                \* what draw_with_state did with each Push it met (a set)
    seen,                   \* the configurations (cursor and call stack) the replay has left
    result,                 \* the metadata pushed by hit_test_contents so far
    tested,                 \* the items hit_test_contents has examined, each with the point used
    status,                 \* "idle", "painting", "hit_testing", "returned", "panicked", "overflowed"
    request,                \* the arguments of the running or the last call
    region,                 \* the ClippingRegion that layout is building
    cursors,                \* further DisplayListTraversals over the list, each with what it returned
    draw_targets,           \* the 2D transform of each draw target of the backend; 0 is the caller's
    paint_contexts,         \* the PaintContexts of the replay: the caller's, then one per active frame
    trace                   \* what the replay did, in order: items met and calls on the paint context

calls == <<target_id, skipped>>
replay == <<frames, painted, decided, seen, result, tested, status, request>>

vars == <<contexts, next_id, phase, root_stacking_context, all_items, list,
          traversal, returned, made_by, target_id, skipped,
          frames, painted, decided, seen, result, tested, status, request, region,
          cursors, draw_targets, paint_contexts, trace>>

(***************************************************************************)
(* Bounds of the model.                                                    *)
(***************************************************************************)
MaxCtx == 3
MaxItems == 2
MaxNone == 2

AU_PER_PX == 60

NoContext == [id |-> -1]
NoTraversal == [display_list |-> "none"]
NoRequest == [call |-> "none"]
None == -1

StackingContextTypes == {"Real", "PseudoPositioned", "PseudoFloat"}
DisplayListSections ==
    {"BackgroundAndBorders", "BlockBackgroundsAndBorders", "Content", "Outlines"}

\* derive(Ord) on DisplayListSection: the order of declaration.
SectionOrd(section) ==
    CASE section = "BackgroundAndBorders" -> 0
      [] section = "BlockBackgroundsAndBorders" -> 1
      [] section = "Content" -> 2
      [] section = "Outlines" -> 3

RootId == 0

(***************************************************************************)
(* Geometry: Rect<Au> as origin and size, a transform as a scale and a     *)
(* translation in pixels (the part of Matrix4D that to_2d keeps, without   *)
(* rotation or skew).                                                      *)
(***************************************************************************)
Rect(x, y, w, h) == [x |-> x, y |-> y, w |-> w, h |-> h]
ZeroRect == Rect(0, 0, 0, 0)

\* max_rect(): from half of the least Au, as wide and high as the greatest Au.
MaxRect == Rect(-1073741824, -1073741824, 2147483647, 2147483647)

\* ClippingRegion::max(), the region a display list builder starts from.
ClippingRegion_max == [main |-> MaxRect, complex |-> <<>>]

\* PaintContext: the draw target (a handle on a target of the backend), the
\* clip rect and the transient clip, both Options.
PaintContext(draw_target, clip_rect, transient_clip) ==
    [draw_target |-> draw_target,
     clip_rect |-> clip_rect,
     transient_clip |-> transient_clip]

Min(a, b) == IF a <= b THEN a ELSE b
Max(a, b) == IF a >= b THEN a ELSE b

Matrix(sx, sy, tx, ty) == [sx |-> sx, sy |-> sy, tx |-> tx, ty |-> ty]
Identity == Matrix(1, 1, 0, 0)

\* a.pre_mul(b): b is applied to a point first, then a.
PreMul(a, b) ==
    Matrix(a.sx * b.sx, a.sy * b.sy, a.sx * b.tx + a.tx, a.sy * b.ty + a.ty)

\* a.pre_translated(x, y, 0): the translation is applied first, then a.
PreTranslated(a, x, y) == PreMul(a, Matrix(1, 1, x, y))

\* Au::to_f32_px and Au::from_f32_px on whole pixels.
ToF32Px(au) == au \div AU_PER_PX
FromF32Px(px) == px * AU_PER_PX

AuRectToF32Rect(r) == Rect(ToF32Px(r.x), ToF32Px(r.y), ToF32Px(r.w), ToF32Px(r.h))
F32RectToAuRect(r) == Rect(FromF32Px(r.x), FromF32Px(r.y), FromF32Px(r.w), FromF32Px(r.h))

\* Matrix2D::transform_rect: the bounding rect of the transformed corners.
TransformRect(m, r) ==
    LET x0 == m.sx * r.x + m.tx
        x1 == m.sx * (r.x + r.w) + m.tx
        y0 == m.sy * r.y + m.ty
        y1 == m.sy * (r.y + r.h) + m.ty
    IN  Rect(Min(x0, x1), Min(y0, y1), Max(x0, x1) - Min(x0, x1), Max(y0, y1) - Min(y0, y1))

\* Rect::union: an empty rect contributes nothing.
RectUnion(a, b) ==
    IF a.w = 0 /\ a.h = 0 THEN b
    ELSE IF b.w = 0 /\ b.h = 0 THEN a
    ELSE LET x0 == Min(a.x, b.x)
             y0 == Min(a.y, b.y)
             x1 == Max(a.x + a.w, b.x + b.w)
             y1 == Max(a.y + a.h, b.y + b.h)
         IN  Rect(x0, y0, x1 - x0, y1 - y0)

(***************************************************************************)
(* StackingContext                                                         *)
(***************************************************************************)
StackingContext_new(id, context_type, bounds, overflow, z_index, blend_mode, transform, layer_info) ==
    [id |-> id,
     context_type |-> context_type,
     bounds |-> bounds,
     overflow |-> overflow,
     z_index |-> z_index,
     blend_mode |-> blend_mode,
     transform |-> transform,
     layer_info |-> layer_info,
     children |-> <<>>]

overflow_rect_in_parent_space(self) ==
    LET origin_x == ToF32Px(self.bounds.x)
        origin_y == ToF32Px(self.bounds.y)
        transform == PreMul(PreTranslated(Identity, origin_x, origin_y), self.transform)
        overflow == AuRectToF32Rect(self.overflow)
    IN  F32RectToAuRect(TransformRect(transform, overflow))

RECURSIVE UnionOverflow(_, _, _)
\* The loop of update_overflow_for_all_children over children[i..].
UnionOverflow(self, overflow, i) ==
    IF i > Len(self.children) THEN overflow
    ELSE LET child == self.children[i]
         IN  IF self.context_type = "Real" /\ child.context_type = "Real"
             THEN UnionOverflow(self, RectUnion(overflow, overflow_rect_in_parent_space(child)), i + 1)
             ELSE UnionOverflow(self, overflow, i + 1)

update_overflow_for_all_children(self) ==
    [self EXCEPT !.overflow = UnionOverflow(self, self.overflow, 1)]

add_child(self, child) ==
    [self EXCEPT !.children = Append(self.children, update_overflow_for_all_children(child))]

cmp_by_own_z_index(self, other) ==
    IF self.z_index # 0
    THEN IF self.z_index < other.z_index THEN "Less"
         ELSE IF self.z_index > other.z_index THEN "Greater"
         ELSE "Equal"
    ELSE IF self.context_type = "PseudoFloat" /\ other.context_type = "PseudoFloat" THEN "Equal"
    ELSE IF self.context_type = "PseudoFloat" THEN "Less"
    ELSE IF other.context_type = "PseudoFloat" THEN "Greater"
    ELSE "Equal"

\* Ord for StackingContext.
cmp(self, other) ==
    IF self.z_index # 0 \/ other.z_index # 0
    THEN IF self.z_index < other.z_index THEN "Less"
         ELSE IF self.z_index > other.z_index THEN "Greater"
         ELSE "Equal"
    ELSE IF self.context_type = "PseudoFloat" /\ other.context_type = "PseudoFloat" THEN "Equal"
    ELSE IF self.context_type = "PseudoFloat" THEN "Less"
    ELSE IF other.context_type = "PseudoFloat" THEN "Greater"
    ELSE "Equal"


(***************************************************************************)
(* Sorting.  Vec::sort and sort_by are stable: each element is placed      *)
(* after the elements already placed that do not compare Greater.          *)
(***************************************************************************)
InsertChildUnstable(sorted, child) ==
    LET p == Cardinality({i \in 1..Len(sorted) : cmp(sorted[i], child) = "Less"})
    IN  SubSeq(sorted, 1, p) \o <<child>> \o SubSeq(sorted, p + 1, Len(sorted))

InsertChild(sorted, child) ==
    LET p == Cardinality({i \in 1..Len(sorted) : cmp(sorted[i], child) # "Greater"})
    IN  SubSeq(sorted, 1, p) \o <<child>> \o SubSeq(sorted, p + 1, Len(sorted))

RECURSIVE SortChildrenFrom(_, _, _)
SortChildrenFrom(children, i, sorted) ==
    IF i > Len(children) THEN sorted
    ELSE SortChildrenFrom(children, i + 1, InsertChild(sorted, children[i]))

\* child_stacking_contexts.sort()
SortChildren(children) == SortChildrenFrom(children, 1, <<>>)

InsertItem(sorted, item) ==
    LET p == Cardinality({i \in 1..Len(sorted) :
                             SectionOrd(sorted[i].base.section) <= SectionOrd(item.base.section)})
    IN  SubSeq(sorted, 1, p) \o <<item>> \o SubSeq(sorted, p + 1, Len(sorted))

RECURSIVE SortItemsFrom(_, _, _)
SortItemsFrom(items, i, sorted) ==
    IF i > Len(items) THEN sorted
    ELSE SortItemsFrom(items, i + 1, InsertItem(sorted, items[i]))

\* child_items.sort_by(|a, b| a.base().section.cmp(&b.base().section))
SortItemsBySection(items) == SortItemsFrom(items, 1, <<>>)

\* child_items.reverse()
Reverse(s) == [i \in 1..Len(s) |-> s[Len(s) + 1 - i]]

(***************************************************************************)
(* Display items.                                                          *)
(***************************************************************************)
DisplayItem(variant, stacking_context_id, section, node) ==
    [variant |-> variant,
     base |-> [stacking_context_id |-> stacking_context_id,
               section |-> section,
               node |-> node]]

PushStackingContext(stacking_context) ==
    [variant |-> "PushStackingContext", stacking_context |-> stacking_context]

PopStackingContext(stacking_context_id) ==
    [variant |-> "PopStackingContext", stacking_context_id |-> stacking_context_id]

IsPush(item) == item.variant = "PushStackingContext"
IsPop(item) == item.variant = "PopStackingContext"
IsMarker(item) == IsPush(item) \/ IsPop(item)

(***************************************************************************)
(* DisplayList::new and generate_display_list                              *)
(***************************************************************************)
MapItemsOverwrite(items) ==
    [id \in {items[i].base.stacking_context_id : i \in 1..Len(items)} |->
        LET bucket == SelectSeq(items, LAMBDA item : item.base.stacking_context_id = id)
        IN  <<bucket[Len(bucket)]>>]

\* The loop of DisplayList::new: one bucket per stacking_context_id that
\* occurs in the pool, each in pool order.
MapItems(items) ==
    [id \in {items[i].base.stacking_context_id : i \in 1..Len(items)} |->
        SelectSeq(items, LAMBDA item : item.base.stacking_context_id = id)]

\* How many items `while child_items.last() is in section { pop }` pops.
TrailingInSection(child_items, section) ==
    CHOOSE n \in 0..Len(child_items) :
        /\ \A i \in (Len(child_items) - n + 1)..Len(child_items) :
              child_items[i].base.section = section
        /\ n < Len(child_items) => child_items[Len(child_items) - n].base.section # section

\* The items popped by n calls of child_items.pop(), in the order popped.
Popped(child_items, n) == [i \in 1..n |-> child_items[Len(child_items) + 1 - i]]

\* What n calls of child_items.pop() leave.
AfterPop(child_items, n) == SubSeq(child_items, 1, Len(child_items) - n)

LeadingPositive(children) ==
    CHOOSE n \in 0..Len(children) :
        /\ \A i \in 1..n : children[i].z_index > 0
        /\ n < Len(children) => ~(children[n + 1].z_index > 0)

\* How many children `while peek() has z_index < 0 { next }` takes.
LeadingNegative(children) ==
    CHOOSE n \in 0..Len(children) :
        /\ \A i \in 1..n : children[i].z_index < 0
        /\ n < Len(children) => ~(children[n + 1].z_index < 0)

LeadingPseudoPositioned(children) ==
    CHOOSE n \in 0..Len(children) :
        /\ \A i \in 1..n : children[i].context_type = "PseudoPositioned"
        /\ n < Len(children) => children[n + 1].context_type # "PseudoPositioned"

\* How many children `while peek() is PseudoFloat { next }` takes.
LeadingPseudoFloat(children) ==
    CHOOSE n \in 0..Len(children) :
        /\ \A i \in 1..n : children[i].context_type = "PseudoFloat"
        /\ n < Len(children) => children[n + 1].context_type # "PseudoFloat"

PushAlways(list0, real_stacking_context, stacking_context) ==
    Append(list0, PushStackingContext(stacking_context))

\* if real_stacking_context { list.push(PushStackingContext) }
PushIfReal(list0, real_stacking_context, stacking_context) ==
    IF real_stacking_context
    THEN Append(list0, PushStackingContext(stacking_context)) ELSE list0

PopAlways(list0, real_stacking_context, stacking_context_id) ==
    Append(list0, PopStackingContext(stacking_context_id))

\* if real_stacking_context { list.push(PopStackingContext) }
PopIfReal(list0, real_stacking_context, stacking_context_id) ==
    IF real_stacking_context
    THEN Append(list0, PopStackingContext(stacking_context_id)) ELSE list0

RECURSIVE generate_display_list(_, _, _)
RECURSIVE GenerateEach(_, _, _)

\* generate_display_list for each of `children` in turn.
GenerateEach(list0, mapped_items, children) ==
    IF children = <<>> THEN [list |-> list0, mapped_items |-> mapped_items]
    ELSE LET r == generate_display_list(list0, mapped_items, Head(children))
         IN  GenerateEach(r.list, r.mapped_items, Tail(children))

\* A variant of take_children that leaves the children in the context.
take_children_cloning(stacking_context) == stacking_context

\* The context after mem::replace moved its children out.
take_children(stacking_context) == [stacking_context EXCEPT !.children = <<>>]

generate_display_list(list0, mapped_items, stacking_context) ==
    LET child_stacking_contexts == SortChildren(stacking_context.children)
        emptied == take_children(stacking_context)
        bucket == IF stacking_context.id \in DOMAIN mapped_items
                  THEN mapped_items[stacking_context.id] ELSE <<>>
        mapped1 == [id \in DOMAIN mapped_items \ {stacking_context.id} |-> mapped_items[id]]
        child_items == Reverse(SortItemsBySection(bucket))
        real_stacking_context == stacking_context.context_type = "Real"
        list1 == PushIfReal(list0, real_stacking_context, emptied)
        \* Steps 1 and 2
        n2 == TrailingInSection(child_items, "BackgroundAndBorders")
        list2 == list1 \o Popped(child_items, n2)
        items2 == AfterPop(child_items, n2)
        \* Step 3
        n3 == LeadingNegative(child_stacking_contexts)
        r3 == GenerateEach(list2, mapped1, SubSeq(child_stacking_contexts, 1, n3))
        children3 == SubSeq(child_stacking_contexts, n3 + 1, Len(child_stacking_contexts))
        \* Step 4
        n4 == TrailingInSection(items2, "BlockBackgroundsAndBorders")
        list4 == r3.list \o Popped(items2, n4)
        items4 == AfterPop(items2, n4)
        \* Step 5
        n5 == LeadingPseudoFloat(children3)
        r5 == GenerateEach(list4, r3.mapped_items, SubSeq(children3, 1, n5))
        children5 == SubSeq(children3, n5 + 1, Len(children3))
        \* Steps 6 and 7
        n6 == TrailingInSection(items4, "Content")
        list6 == r5.list \o Popped(items4, n6)
        items6 == AfterPop(items4, n6)
        \* Steps 8 and 9
        r8 == GenerateEach(list6, r5.mapped_items, children5)
        \* Step 10
        list10 == r8.list \o items6
    IN  [list |-> PopIfReal(list10, real_stacking_context, stacking_context.id),
         mapped_items |-> r8.mapped_items]

DisplayList_new(root, items) ==
    generate_display_list(<<>>, MapItems(items), root).list

(***************************************************************************)
(* Inputs.                                                                 *)
(***************************************************************************)
ZIndexes == {-1, 0, 1}

\* Pools of at most MaxItems items; an item's node is its place in the pool.
ItemChoices == [stacking_context_id : 0..(MaxCtx - 1), section : DisplayListSections]
PoolsOf(choices) ==
    UNION {{[i \in 1..n |-> DisplayItem("SolidColor", f[i].stacking_context_id, f[i].section, i)] :
               f \in [1..n -> choices]} : n \in 0..MaxItems}
Pools == PoolsOf(ItemChoices)

(***************************************************************************)
(* Actions.                                                                *)
(***************************************************************************)
Init ==
    /\ contexts = {}
    /\ next_id = 0
    /\ phase = "layout"
    /\ root_stacking_context = NoContext
    /\ all_items = <<>>
    /\ list = <<>>
    /\ traversal = NoTraversal
    /\ returned = <<>>
    /\ made_by = "none"
    /\ target_id = None
    /\ skipped = <<>>
    /\ frames = <<>>
    /\ painted = {}
    /\ decided = {}
    /\ seen = {}
    /\ result = <<>>
    /\ tested = <<>>
    /\ status = "idle"
    /\ request = NoRequest
    /\ region = ClippingRegion_max
    /\ cursors = <<>>
    /\ draw_targets = [target \in {0} |-> Identity]
    /\ paint_contexts = <<PaintContext(0, <<>>, <<>>)>>
    /\ trace = <<>>

\* Layout creates a stacking context with the next id.
NewContext(context_type, bounds, overflow, z_index, blend_mode, transform, layer_info) ==
    /\ phase = "layout"
    /\ next_id < MaxCtx
    /\ contexts' = contexts \cup
          {StackingContext_new(next_id, context_type, bounds, overflow, z_index, blend_mode,
                               transform, layer_info)}
    /\ next_id' = next_id + 1
    /\ UNCHANGED <<region, cursors, draw_targets, paint_contexts, trace, phase, root_stacking_context, all_items, list, traversal, returned, made_by>>
    /\ UNCHANGED <<calls, replay>>

\* The context with the root id is the root of the tree and has z-index 0.
StackingContextNew ==
    \E context_type \in StackingContextTypes, z_index \in ZIndexes :
        /\ next_id = RootId => z_index = 0
        /\ NewContext(context_type, ZeroRect, ZeroRect, z_index, "normal", Identity, <<>>)

\* parent.add_child(child): the child is moved into the parent.
AddChild ==
    \E parent \in contexts, child \in contexts :
        /\ phase = "layout"
        /\ parent.id # child.id
        /\ child.id # RootId
        /\ contexts' = (contexts \ {parent, child}) \cup {add_child(parent, child)}
        /\ UNCHANGED <<region, cursors, draw_targets, paint_contexts, trace, next_id, phase, root_stacking_context, all_items, list,
                       traversal, returned, made_by>>
        /\ UNCHANGED <<calls, replay>>

\* DisplayList::new(root, items), once layout has a single tree.
Assemble(pools) ==
    \E root \in contexts, items \in pools :
        /\ phase = "layout"
        /\ contexts = {root}
        /\ root_stacking_context' = root
        /\ all_items' = items
        /\ list' = DisplayList_new(root, items)
        /\ phase' = "assembled"
        /\ contexts' = {}
        /\ UNCHANGED <<region, cursors, draw_targets, paint_contexts, trace, next_id, traversal, returned, made_by>>
        /\ UNCHANGED <<calls, replay>>

DisplayListNew == Assemble(Pools)

Next == StackingContextNew \/ AddChild \/ DisplayListNew

Spec == Init /\ [][Next]_vars

(***************************************************************************)
(* Stacking contexts with geometry: whole-pixel rects, the identity and a  *)
(* translation as transforms.                                              *)
(***************************************************************************)
Origins == {0, 2 * AU_PER_PX}
Overflows == {Rect(0, 0, AU_PER_PX, AU_PER_PX), Rect(AU_PER_PX, 0, AU_PER_PX, 2 * AU_PER_PX)}
Transforms == {Identity, Matrix(1, 1, 1, 0)}

StackingContextNewWithGeometry ==
    \E context_type \in {"Real", "PseudoPositioned"}, x \in Origins,
       overflow \in Overflows, transform \in Transforms :
        NewContext(context_type, Rect(x, 0, AU_PER_PX, AU_PER_PX), overflow, 0, "normal",
                   transform, <<>>)

NextOverflow == StackingContextNewWithGeometry \/ AddChild

SpecOverflow == Init /\ [][NextOverflow]_vars

(***************************************************************************)
(* DisplayListTraversal.  Indices are those of the source, from 0.         *)
(***************************************************************************)
ItemAt(index) == list[index + 1]

DisplayListTraversal_new_short(display_list) ==
    [display_list |-> "list",
     next_item_index |-> 0,
     first_item_index |-> 0,
     last_item_index |-> Len(display_list) - 1]

DisplayListTraversal_new(display_list) ==
    [display_list |-> "list",
     next_item_index |-> 0,
     first_item_index |-> 0,
     last_item_index |-> Len(display_list)]

next_every(self) ==
    IF self.next_item_index < self.last_item_index
    THEN [item |-> self.next_item_index,
          self |-> [self EXCEPT !.next_item_index = self.next_item_index + 1]]
    ELSE [item |-> None, self |-> self]

RECURSIVE next(_)
\* Iterator::next: what it returns (an index or None) and the traversal after.
next(self) ==
    IF self.next_item_index < self.last_item_index
    THEN LET reached_first_item == self.next_item_index >= self.first_item_index
             index == self.next_item_index
             advanced == [self EXCEPT !.next_item_index = self.next_item_index + 1]
         IN  IF reached_first_item \/ IsMarker(ItemAt(index))
             THEN [item |-> index, self |-> advanced]
             ELSE next(advanced)
    ELSE [item |-> None, self |-> self]

NoneCount == Cardinality({k \in 1..Len(returned) : returned[k] = None})

\* DisplayListTraversal::new(&display_list)
TraversalNew ==
    /\ phase = "assembled"
    /\ traversal = NoTraversal
    /\ traversal' = DisplayListTraversal_new(list)
    /\ made_by' = "new"
    /\ UNCHANGED <<region, cursors, draw_targets, paint_contexts, trace, contexts, next_id, phase, root_stacking_context, all_items, list, returned>>
    /\ UNCHANGED <<calls, replay>>

\* traversal.next()
TraversalNext ==
    /\ traversal # NoTraversal
    /\ NoneCount < MaxNone
    /\ traversal' = next(traversal).self
    /\ returned' = Append(returned, next(traversal).item)
    /\ UNCHANGED <<region, cursors, draw_targets, paint_contexts, trace, contexts, next_id, phase, root_stacking_context, all_items, list, made_by>>
    /\ UNCHANGED <<calls, replay>>

\* The lists the traversal runs over come from trees of Real and
\* PseudoPositioned contexts without z-index and from pools of Content items.
StackingContextNewPlain ==
    \E context_type \in {"Real", "PseudoPositioned"} :
        NewContext(context_type, ZeroRect, ZeroRect, 0, "normal", Identity, <<>>)

ContentChoices == [stacking_context_id : 0..(MaxCtx - 1), section : {"Content"}]

DisplayListNewOfContent == Assemble(PoolsOf(ContentChoices))

NextTraversal ==
    \/ StackingContextNewPlain
    \/ AddChild
    \/ DisplayListNewOfContent
    \/ TraversalNew
    \/ TraversalNext

SpecTraversal == Init /\ [][NextTraversal]_vars

(***************************************************************************)
(* Partial traversals and skip_to_end_of_stacking_context.                 *)
(***************************************************************************)
MaxSkips == 2

\* The indices of display_list[0..start] that hold the Push of the context.
PushesBefore(display_list, stacking_context_id, start) ==
    {i \in 0..(start - 1) :
        /\ IsPush(display_list[i + 1])
        /\ display_list[i + 1].stacking_context.id = stacking_context_id}

DisplayListTraversal_new_partial_from_zero(display_list, stacking_context_id, start, end) ==
    LET found == PushesBefore(display_list, stacking_context_id, start)
    IN  [display_list |-> "list",
         next_item_index |-> IF found = {} THEN 0
                             ELSE CHOOSE i \in found : \A j \in found : j <= i,
         first_item_index |-> start,
         last_item_index |-> end + 1]

DisplayListTraversal_new_partial_at_start(display_list, stacking_context_id, start, end) ==
    [display_list |-> "list",
     next_item_index |-> start,
     first_item_index |-> start,
     last_item_index |-> end + 1]

\* DisplayListTraversal::new_partial: rposition over list[0..start], or start.
DisplayListTraversal_new_partial(display_list, stacking_context_id, start, end) ==
    LET found == PushesBefore(display_list, stacking_context_id, start)
        stacking_context_start == IF found = {} THEN start
                                  ELSE CHOOSE i \in found : \A j \in found : j <= i
    IN  [display_list |-> "list",
         next_item_index |-> stacking_context_start,
         first_item_index |-> start,
         last_item_index |-> end + 1]

\* skip_to_end_of_stacking_context: position() counts from the start of the
\* slice list[next_item_index..], and that count becomes the cursor.
skip_to_end_of_stacking_context(self, id) ==
    LET found == {k \in 0..(Len(list) - self.next_item_index - 1) :
                     /\ IsPop(ItemAt(self.next_item_index + k))
                     /\ ItemAt(self.next_item_index + k).stacking_context_id = id}
    IN  [self EXCEPT !.next_item_index =
            IF found = {} THEN Len(list)
            ELSE CHOOSE k \in found : \A j \in found : k <= j]

\* DisplayListTraversal::new_partial(&display_list, stacking_context_id, start, end),
\* with the arguments its assertions ask for: start <= end < len.
TraversalNewPartial ==
    \E stacking_context_id \in 0..(MaxCtx - 1), start \in 0..(Len(list) - 1) :
        \E end \in start..(Len(list) - 1) :
            /\ phase = "assembled"
            /\ traversal = NoTraversal
            /\ traversal' = DisplayListTraversal_new_partial(list, stacking_context_id, start, end)
            /\ made_by' = "new_partial"
            /\ target_id' = stacking_context_id
            /\ UNCHANGED <<region, cursors, draw_targets, paint_contexts, trace, contexts, next_id, phase, root_stacking_context, all_items, list,
                           returned, skipped>>
            /\ UNCHANGED replay

\* The item next() returned last, when it is a PushStackingContext.
LastReturnedIsPush ==
    /\ returned # <<>>
    /\ returned[Len(returned)] # None
    /\ IsPush(ItemAt(returned[Len(returned)]))

\* traversal.skip_to_end_of_stacking_context(id), called as draw_with_state
\* calls it: with the id of the Push that next() has just returned.
TraversalSkip ==
    /\ traversal # NoTraversal
    /\ LastReturnedIsPush
    /\ Len(skipped) < MaxSkips
    /\ \A k \in 1..Len(skipped) : skipped[k].at # Len(returned)
    /\ LET id == ItemAt(returned[Len(returned)]).stacking_context.id
           after == skip_to_end_of_stacking_context(traversal, id)
       IN  /\ traversal' = after
           /\ skipped' = Append(skipped, [id |-> id,
                                          at |-> Len(returned),
                                          from |-> traversal.next_item_index,
                                          to |-> after.next_item_index])
    /\ UNCHANGED <<region, cursors, draw_targets, paint_contexts, trace, contexts, next_id, phase, root_stacking_context, all_items, list,
                   returned, made_by, target_id>>
    /\ UNCHANGED replay

NextPartial ==
    \/ StackingContextNewPlain
    \/ AddChild
    \/ DisplayListNewOfContent
    \/ TraversalNewPartial
    \/ TraversalNext
    \/ TraversalSkip

SpecPartial == Init /\ [][NextPartial]_vars

(***************************************************************************)
(* Points, rectangle tests and inverse transforms.  An Option is a         *)
(* sequence: <<>> for None, <<v>> for Some(v).  The scales of a transform  *)
(* are 0, 1 or -1, so that the inverse is exact.                           *)
(***************************************************************************)
Point(x, y) == [x |-> x, y |-> y]

\* Rect::contains: the right and bottom edges are outside.
RectContains(r, p) ==
    /\ r.x <= p.x /\ p.x < r.x + r.w
    /\ r.y <= p.y /\ p.y < r.y + r.h

\* Rect::intersects
RectIntersects(a, b) ==
    /\ a.x < b.x + b.w /\ b.x < a.x + a.w
    /\ a.y < b.y + b.h /\ b.y < a.y + a.h

\* Matrix4D::inverse: None when the determinant is zero.
Inverse(m) ==
    IF m.sx = 0 \/ m.sy = 0 THEN <<>>
    ELSE <<Matrix(m.sx, m.sy, -(m.sx * m.tx), -(m.sy * m.ty))>>

\* Matrix2D::transform_point
TransformPoint(m, p) == Point(m.sx * p.x + m.tx, m.sy * p.y + m.ty)

\* The tile, placed at the origin, in the space of the stacking context.
transformed_tile_rect(tile_rect, transform) ==
    LET inverse_transform == Inverse(transform)
    IN  IF inverse_transform = <<>> THEN <<>>
        ELSE <<F32RectToAuRect(TransformRect(inverse_transform[1],
                                             Rect(0, 0, tile_rect.w, tile_rect.h)))>>

StackingContext_intersects_rect_in_parent_context(self, rect) ==
    IF self.context_type # "Real" THEN TRUE
    ELSE IF rect = <<>> THEN TRUE
    ELSE RectIntersects(overflow_rect_in_parent_space(self), rect[1])

(***************************************************************************)
(* ClippingRegion and BaseDisplayItem.                                     *)
(***************************************************************************)
Size(width, height) == [width |-> width, height |-> height]

BorderRadii(top_left, top_right, bottom_right, bottom_left) ==
    [top_left |-> top_left, top_right |-> top_right,
     bottom_right |-> bottom_right, bottom_left |-> bottom_left]

BorderRadii_all_same(value) ==
    BorderRadii(Size(value, value), Size(value, value), Size(value, value), Size(value, value))

ComplexClippingRegion(rect, radii) == [rect |-> rect, radii |-> radii]

ClippingRegion_empty == [main |-> ZeroRect, complex |-> <<>>]
ClippingRegion_from_rect(rect) == [main |-> rect, complex |-> <<>>]

max_x(r) == r.x + r.w
max_y(r) == r.y + r.h

\* Rect::intersection: None when the rects do not intersect.
RectIntersection(a, b) ==
    IF ~(/\ a.x < b.x + b.w /\ b.x < a.x + a.w
         /\ a.y < b.y + b.h /\ b.y < a.y + a.h)
    THEN <<>>
    ELSE <<Rect(Max(a.x, b.x), Max(a.y, b.y),
                Min(max_x(a), max_x(b)) - Max(a.x, b.x),
                Min(max_y(a), max_y(b)) - Max(a.y, b.y))>>

\* Rect::translate
RectTranslate(r, delta) == Rect(r.x + delta.x, r.y + delta.y, r.w, r.h)

intersect_rect_keeping_main(self, rect) ==
    LET intersection == RectIntersection(self.main, rect)
    IN  [self EXCEPT !.main = IF intersection = <<>> THEN self.main ELSE intersection[1]]

\* self.main = self.main.intersection(rect).unwrap_or(Rect::zero())
intersect_rect(self, rect) ==
    LET intersection == RectIntersection(self.main, rect)
    IN  [self EXCEPT !.main = IF intersection = <<>> THEN ZeroRect ELSE intersection[1]]

completely_encloses_ignoring_radii(self, other) ==
    /\ self.rect.x <= other.rect.x /\ self.rect.y <= other.rect.y
    /\ max_x(self.rect) >= max_x(other.rect) /\ max_y(self.rect) >= max_y(other.rect)

\* ComplexClippingRegion::completely_encloses: the rect of other is within
\* the rect of self inset on each edge by the larger of the two radii there.
completely_encloses(self, other) ==
    LET left == Max(self.radii.top_left.width, self.radii.bottom_left.width)
        top == Max(self.radii.top_left.height, self.radii.top_right.height)
        right == Max(self.radii.top_right.width, self.radii.bottom_right.width)
        bottom == Max(self.radii.bottom_left.height, self.radii.bottom_right.height)
        interior == Rect(self.rect.x + left, self.rect.y + top,
                         self.rect.w - left - right, self.rect.h - top - bottom)
    IN  /\ interior.x <= other.rect.x /\ interior.y <= other.rect.y
        /\ max_x(interior) >= max_x(other.rect) /\ max_y(interior) >= max_y(other.rect)

intersect_with_rounded_rect_replacing_first(self, rect, radii) ==
    LET new_complex_region == ComplexClippingRegion(rect, radii)
        enclosing == {i \in 1..Len(self.complex) :
                         completely_encloses(self.complex[i], new_complex_region)}
        enclosed == {i \in 1..Len(self.complex) :
                        completely_encloses(new_complex_region, self.complex[i])}
    IN  IF enclosing # {}
        THEN [self EXCEPT !.complex[CHOOSE i \in enclosing : \A j \in enclosing : i <= j] =
                              new_complex_region]
        ELSE IF enclosed # {} THEN self
        ELSE [self EXCEPT !.complex = Append(self.complex, new_complex_region)]

RECURSIVE ScanComplex(_, _, _)
\* The loop of intersect_with_rounded_rect from entry i on, and the push after it.
ScanComplex(self, new_complex_region, i) ==
    IF i > Len(self.complex)
    THEN [self EXCEPT !.complex = Append(self.complex, new_complex_region)]
    ELSE IF completely_encloses(self.complex[i], new_complex_region)
    THEN [self EXCEPT !.complex[i] = new_complex_region]
    ELSE IF completely_encloses(new_complex_region, self.complex[i])
    THEN self
    ELSE ScanComplex(self, new_complex_region, i + 1)

intersect_with_rounded_rect(self, rect, radii) ==
    ScanComplex(self, ComplexClippingRegion(rect, radii), 1)

translate_main_only(self, delta) == [self EXCEPT !.main = RectTranslate(self.main, delta)]

\* ClippingRegion::translate
translate(self, delta) ==
    [main |-> RectTranslate(self.main, delta),
     complex |-> [i \in 1..Len(self.complex) |->
                     ComplexClippingRegion(RectTranslate(self.complex[i].rect, delta),
                                           self.complex[i].radii)]]

might_intersect_point_of_main(self, point) == RectContains(self.main, point)

might_intersect_point(self, point) ==
    /\ RectContains(self.main, point)
    /\ \A i \in 1..Len(self.complex) : RectContains(self.complex[i].rect, point)

might_intersect_rect(self, rect) ==
    /\ RectIntersects(self.main, rect)
    /\ \A i \in 1..Len(self.complex) : RectIntersects(self.complex[i].rect, rect)

does_not_clip_rect(self, rect) ==
    LET origin == Point(rect.x, rect.y)
        bottom_right == Point(rect.x + rect.w, rect.y + rect.h)
    IN  /\ RectContains(self.main, origin) /\ RectContains(self.main, bottom_right)
        /\ \A i \in 1..Len(self.complex) :
              /\ RectContains(self.complex[i].rect, origin)
              /\ RectContains(self.complex[i].rect, bottom_right)

DisplayItemMetadata(node, pointing) == [node |-> node, pointing |-> pointing]

\* BaseDisplayItem::new: a clip that does not clip the bounds is stored as max().
BaseDisplayItem_new(bounds, metadata, clip, section, stacking_context_id) ==
    [bounds |-> bounds,
     metadata |-> metadata,
     clip |-> IF does_not_clip_rect(clip, bounds) THEN ClippingRegion_max ELSE clip,
     section |-> section,
     stacking_context_id |-> stacking_context_id]

SolidColorDisplayItem(base, alpha) ==
    [variant |-> "SolidColor", base |-> base, color |-> [a |-> alpha]]

DisplayItem_intersects_rect_in_parent_context(self, rect) ==
    IF rect = <<>> THEN TRUE
    ELSE IF ~RectIntersects(rect[1], self.base.bounds) THEN FALSE
    ELSE might_intersect_rect(self.base.clip, rect[1])

ImageDisplayItem(base, image_data) ==
    [variant |-> "Image", base |-> base, image_data |-> image_data]

WebGLDisplayItem(base) == [variant |-> "WebGL", base |-> base]

\* DisplayItem::draw_into_context: the arms that end in a panic, the WebGL
\* one and the expect() of the Image one.
DisplayItem_draw_into_context_panics(self) ==
    CASE self.variant = "WebGL" -> TRUE
      [] self.variant = "Image" -> self.image_data = <<>>
      [] OTHER -> FALSE

\* DisplayItem::draw_into_context: whether a draw call reaches the backend.
DisplayItem_draw_into_context(self) ==
    CASE self.variant = "SolidColor" -> self.color.a # 0
      [] self.variant \in {"Iframe", "PushStackingContext", "PopStackingContext"} -> FALSE
      [] OTHER -> TRUE

(***************************************************************************)
(* Paint replay: draw_into_context, draw_with_state, draw_stacking_context.*)
(* A step is one turn of the loop of the innermost draw_with_state.        *)
(***************************************************************************)
\* The deepest call stack the model follows; a properly nested list needs
\* one frame per context and one for draw_into_context.
MaxDepth == MaxCtx + 2

\* The log of a replay keeps its first MaxTrace entries: more than a replay
\* that meets every entry of the list once can make.
MaxTrace == 8 * MaxCtx + 4 * MaxItems + 2

\* One entry of the log: an item met or a call on the paint context at
\* the given depth of the call stack; the fields a call does not have are
\* None, its argument or outcome is in value.
Event(op, depth, id, index, target, value) ==
    [op |-> op, depth |-> depth, id |-> id, index |-> index, target |-> target,
     value |-> value]

Logged(log, entries) ==
    SubSeq(log \o entries, 1, Min(Len(log) + Len(entries), MaxTrace))

\* An activation of draw_with_state: the context whose draw_stacking_context
\* made the call with the transform it saved (None and <<>> for the call of
\* draw_into_context), and the arguments.
Frame(stacking_context_id, old_transform, transform, subpixel_offset, tile_rect) ==
    [stacking_context_id |-> stacking_context_id,
     old_transform |-> old_transform,
     transform |-> transform,
     subpixel_offset |-> subpixel_offset,
     tile_rect |-> tile_rect]

\* The ids of the contexts whose draw_stacking_context is active, outermost first.
Chain == [k \in 1..(Len(frames) - 1) |-> frames[k + 1].stacking_context_id]

\* Au::to_nearest_pixel with one screen pixel per px: the nearest whole
\* number of pixels, halves away from zero (f32::round).
to_nearest_pixel(au) ==
    IF au >= 0 THEN (2 * au + AU_PER_PX) \div (2 * AU_PER_PX)
    ELSE -((2 * (-au) + AU_PER_PX) \div (2 * AU_PER_PX))

\* Matrix4D::is_identity_or_simple_translation
is_identity_or_simple_translation(m) == m.sx = 1 /\ m.sy = 1

\* The transform draw_stacking_context hands to draw_with_state: the inherited
\* one for a context that starts a layer, else the inherited one, the
\* translation to the pixel-snapped origin and the transform of the context.
ContextTransform(transform, subpixel_offset, stacking_context) ==
    IF stacking_context.layer_info # <<>> THEN transform
    ELSE PreMul(PreTranslated(transform,
                              to_nearest_pixel(stacking_context.bounds.x + subpixel_offset.x),
                              to_nearest_pixel(stacking_context.bounds.y + subpixel_offset.y)),
                stacking_context.transform)

\* The subpixel offset draw_stacking_context hands to draw_with_state.
ContextSubpixelOffset_always_kept(transform, subpixel_offset, stacking_context) ==
    IF stacking_context.layer_info # <<>> THEN subpixel_offset
    ELSE LET x == stacking_context.bounds.x + subpixel_offset.x
             y == stacking_context.bounds.y + subpixel_offset.y
         IN  Point(x - FromF32Px(to_nearest_pixel(x)), y - FromF32Px(to_nearest_pixel(y)))

ContextSubpixelOffset(transform, subpixel_offset, stacking_context) ==
    IF stacking_context.layer_info # <<>> THEN subpixel_offset
    ELSE LET x == stacking_context.bounds.x + subpixel_offset.x
             y == stacking_context.bounds.y + subpixel_offset.y
         IN  IF is_identity_or_simple_translation(
                    ContextTransform(transform, subpixel_offset, stacking_context))
             THEN Point(x - FromF32Px(to_nearest_pixel(x)), y - FromF32Px(to_nearest_pixel(y)))
             ELSE Point(0, 0)

\* paint_context.get_or_create_temporary_draw_target(filters, blend_mode): the
\* backend decides whether an offscreen target is needed; here it is for
\* every blend mode but normal.  A new target is named after the place of
\* the Push it is made for.
get_or_create_temporary_draw_target(self, blend_mode, index) ==
    IF blend_mode = "normal" THEN self.draw_target ELSE index + 1

\* paint_context.push_transient_clip(clip)
push_transient_clip(self, clip) == [self EXCEPT !.transient_clip = <<clip>>]

\* paint_context.remove_transient_clip_if_applicable()
remove_transient_clip_if_applicable(self) == [self EXCEPT !.transient_clip = <<>>]

\* draw_target.set_transform(transform), on the targets of the backend; a
\* target the backend has not made before is made.
set_transform(targets, draw_target, transform) ==
    [target \in DOMAIN targets \cup {draw_target} |->
        IF target = draw_target THEN transform ELSE targets[target]]

\* The clip of an item; the base of a marker is BaseDisplayItem::empty().
ItemClip(item) == IF IsMarker(item) THEN ClippingRegion_max ELSE item.base.clip

\* DisplayItem::draw_into_context up to the match: the transient clip is kept
\* when it equals the clip of the item, and pushed otherwise.
PushesTransientClip_when_none(self, paint_context) ==
    paint_context.transient_clip = <<>>

PushesTransientClip(self, paint_context) ==
    paint_context.transient_clip # <<ItemClip(self)>>

\* What item.draw_into_context(paint_context), which returns, adds to the
\* log: the call, with the clip of the item and the transient clip it finds,
\* and the calls it makes.
ItemDrawn(self, index, paint_context, depth) ==
    <<Event("draw_into_context", depth, None, index, paint_context.draw_target,
            [clip |-> ItemClip(self), transient_clip |-> paint_context.transient_clip])>>
    \o (IF PushesTransientClip(self, paint_context)
     THEN <<Event("push_transient_clip", depth, None, index, paint_context.draw_target,
                  <<ItemClip(self)>>)>>
     ELSE <<>>)
    \o (IF DisplayItem_draw_into_context(self)
        THEN <<Event("draw", depth, None, index, paint_context.draw_target, <<>>)>>
        ELSE <<>>)

\* The paint context after item.draw_into_context(paint_context).
PaintContextAfter(self, paint_context) ==
    IF PushesTransientClip(self, paint_context)
    THEN push_transient_clip(paint_context, ItemClip(self))
    ELSE paint_context

ScreenSizes == {4}
PaintTransforms == {Identity, Matrix(1, 1, -5, 0)}

\* What the rest of a replay depends on, the list and the request apart.
Configuration == [next_item_index |-> traversal.next_item_index, frames |-> frames]

\* display_list.draw_into_context(paint_context, transform, stacking_context_id, start, end)
draw_into_context(transform, size, stacking_context_id, start, end) ==
    /\ phase = "assembled"
    /\ status = "idle"
    /\ traversal = NoTraversal
    /\ traversal' = DisplayListTraversal_new_partial(list, stacking_context_id, start, end)
    /\ made_by' = "new_partial"
    /\ target_id' = stacking_context_id
    /\ request' = [call |-> "draw_into_context",
                   transform |-> transform,
                   screen_rect |-> Rect(0, 0, size, size)]
    /\ frames' = <<Frame(None, <<>>, transform, Point(0, 0), <<>>)>>
    /\ status' = "painting"
    /\ UNCHANGED <<region, cursors, draw_targets, paint_contexts, trace,
                   contexts, next_id, phase, root_stacking_context, all_items, list,
                   returned, skipped, painted, decided, seen, result, tested>>

\* The replay of the whole list.
DrawIntoContext ==
    \E transform \in PaintTransforms, size \in ScreenSizes :
        draw_into_context(transform, size, root_stacking_context.id, 0, Len(list) - 1)

\* The Pop arm going on with the loop instead of returning.
DrawReturn_staying(after) ==
    /\ traversal' = after
    /\ UNCHANGED <<frames, status, draw_targets, paint_contexts, trace, painted, decided>>

\* draw_with_state returns to its caller; draw_stacking_context, when that
\* is the caller, goes on to its end.
DrawReturn(after) ==
    LET frame == frames[Len(frames)]
        depth == Len(frames)
        paint_subcontext == paint_contexts[Len(paint_contexts)]
        draw_target == paint_subcontext.draw_target
        restored == set_transform(draw_targets, draw_target, frame.old_transform)
        paint_context == paint_contexts[Len(paint_contexts) - 1]
    IN  /\ traversal' = after
        /\ frames' = SubSeq(frames, 1, Len(frames) - 1)
        /\ status' = IF Len(frames) = 1 THEN "returned" ELSE status
        /\ IF Len(frames) = 1
           THEN UNCHANGED <<draw_targets, paint_contexts, trace>>
           ELSE /\ draw_targets' = restored
                /\ paint_contexts' = SubSeq(paint_contexts, 1, Len(paint_contexts) - 1)
                /\ trace' = Logged(trace,
                      <<Event("remove_transient_clip_if_applicable", depth,
                              frame.stacking_context_id, None, draw_target,
                              paint_subcontext.transient_clip),
                        Event("pop_clip_if_applicable", depth,
                              frame.stacking_context_id, None, draw_target,
                              paint_subcontext.clip_rect),
                        Event("set_transform", depth, frame.stacking_context_id, None,
                              draw_target, <<frame.old_transform>>),
                        Event("draw_temporary_draw_target_if_necessary", depth - 1,
                              frame.stacking_context_id, None, draw_target, <<>>),
                        Event("return", depth - 1, frame.stacking_context_id, None,
                              paint_context.draw_target,
                              <<restored[paint_context.draw_target]>>)>>)
        /\ UNCHANGED <<painted, decided>>

\* The PushStackingContext arm of draw_with_state, with draw_stacking_context
\* up to its call of draw_with_state.  A failed debug_assert of the skip
\* ends a debug build and is not there in a release build.
DrawPush(index, after) ==
    LET frame == frames[Len(frames)]
        depth == Len(frames)
        paint_context == paint_contexts[Len(paint_contexts)]
        context == ItemAt(index).stacking_context
        draw_target == get_or_create_temporary_draw_target(paint_context, context.blend_mode,
                                                           index)
        old_transform == draw_targets[paint_context.draw_target]
        transform == ContextTransform(frame.transform, frame.subpixel_offset, context)
        subpixel_offset == ContextSubpixelOffset(frame.transform, frame.subpixel_offset, context)
        transformed == transformed_tile_rect(request.screen_rect, transform)
        decision(what) == [id |-> context.id, index |-> index, what |-> what, chain |-> Chain]
        skip == skip_to_end_of_stacking_context(after, context.id)
        entered == <<Event("get_or_create_temporary_draw_target", depth, context.id, index,
                           draw_target, <<old_transform>>)>>
        made == set_transform(draw_targets, draw_target,
                              IF draw_target \in DOMAIN draw_targets
                              THEN draw_targets[draw_target] ELSE old_transform)
    IN  IF ~StackingContext_intersects_rect_in_parent_context(context, frame.tile_rect)
        THEN /\ traversal' = skip
             /\ decided' = decided \cup {decision("culled")}
             /\ trace' = Logged(trace,
                   <<Event("skip_to_end_of_stacking_context", depth, context.id, index, None,
                           <<skip.next_item_index, skip.last_item_index>>)>>)
             /\ \/ UNCHANGED status
                \/ /\ ~(skip.next_item_index < skip.last_item_index)
                   /\ status' = "panicked"
             /\ UNCHANGED <<frames, painted, draw_targets, paint_contexts>>
        ELSE IF transformed = <<>>
        THEN /\ traversal' = after
             /\ decided' = decided \cup {decision("not_invertible")}
             /\ draw_targets' = made
             /\ trace' = Logged(trace,
                   entered \o <<Event("return", depth, context.id, None,
                                      paint_context.draw_target,
                                      <<made[paint_context.draw_target]>>)>>)
             /\ UNCHANGED <<frames, painted, status, paint_contexts>>
        ELSE IF Len(frames) >= MaxDepth
        THEN /\ traversal' = after
             /\ status' = "overflowed"
             /\ UNCHANGED <<frames, painted, decided, draw_targets, paint_contexts, trace>>
        ELSE /\ traversal' = after
             /\ frames' = Append(frames, Frame(context.id, old_transform, transform,
                                               subpixel_offset, transformed))
             /\ decided' = decided \cup {decision("drawn")}
             /\ draw_targets' = set_transform(made, draw_target, transform)
             /\ paint_contexts' = Append(paint_contexts,
                                         PaintContext(draw_target, <<context.overflow>>, <<>>))
             /\ trace' = Logged(trace,
                   entered \o <<Event("set_transform", depth + 1, context.id, None,
                                      draw_target, <<transform>>),
                                Event("push_clip_if_applicable", depth + 1, context.id, None,
                                      draw_target, <<context.overflow>>)>>)
             /\ UNCHANGED <<painted, status>>

\* The last arm of draw_with_state.
DrawItem(index, after) ==
    LET frame == frames[Len(frames)]
        depth == Len(frames)
        paint_context == paint_contexts[Len(paint_contexts)]
        item == ItemAt(index)
        met == <<Event("item", depth, frame.stacking_context_id, index, None, Chain)>>
        intersects == DisplayItem_intersects_rect_in_parent_context(item, frame.tile_rect)
    IN  /\ traversal' = after
        /\ IF intersects /\ DisplayItem_draw_into_context_panics(item)
           THEN /\ status' = "panicked"
                /\ paint_contexts' = [paint_contexts EXCEPT ![Len(paint_contexts)] =
                                          PaintContextAfter(item, paint_context)]
                /\ trace' = Logged(trace, met)
                /\ UNCHANGED painted
           ELSE /\ painted' =
                      IF intersects /\ DisplayItem_draw_into_context(item)
                      THEN painted \cup {[index |-> index, frame |-> frame, chain |-> Chain]}
                      ELSE painted
                /\ paint_contexts' =
                      IF intersects
                      THEN [paint_contexts EXCEPT ![Len(paint_contexts)] =
                                PaintContextAfter(item, paint_context)]
                      ELSE paint_contexts
                /\ trace' = Logged(trace,
                      met \o (IF intersects THEN ItemDrawn(item, index, paint_context, depth)
                              ELSE <<>>))
                /\ UNCHANGED status
        /\ UNCHANGED <<frames, decided, draw_targets>>

DrawStep ==
    /\ status = "painting"
    /\ LET r == next(traversal)
       IN  IF r.item = None THEN DrawReturn(r.self)
           ELSE IF IsPush(ItemAt(r.item)) THEN DrawPush(r.item, r.self)
           ELSE IF IsPop(ItemAt(r.item)) THEN DrawReturn(r.self)
           ELSE DrawItem(r.item, r.self)
    /\ seen' = seen \cup {Configuration}
    /\ UNCHANGED <<region, cursors, contexts, next_id, phase, root_stacking_context, all_items,
                   list, returned, made_by, target_id, skipped, result, tested, request>>

\* The trees that are painted: Real contexts two pixels wide, at the origin
\* or five pixels to the right, with the identity or a transform that
\* flattens everything onto a vertical line.
PaintedOrigins == {0, 5 * AU_PER_PX}
PaintedTransforms == {Identity, Matrix(0, 1, 1, 0)}

StackingContextNewPainted ==
    \E x \in PaintedOrigins, transform \in PaintedTransforms :
        NewContext("Real", Rect(x, 0, 2 * AU_PER_PX, 2 * AU_PER_PX),
                   Rect(0, 0, 2 * AU_PER_PX, 2 * AU_PER_PX), 0, "normal", transform, <<>>)

\* Pools of opaque one-pixel boxes: the first in the Content section, which
\* comes before the child contexts, the others in the Outlines section,
\* which comes after them.
BoxPools ==
    UNION {{[i \in 1..n |->
                SolidColorDisplayItem(
                    BaseDisplayItem_new(Rect(0, 0, AU_PER_PX, AU_PER_PX),
                                        DisplayItemMetadata(i, <<>>),
                                        ClippingRegion_max,
                                        IF i = 1 THEN "Content" ELSE "Outlines", f[i]), 1)] :
               f \in [1..n -> 0..(MaxCtx - 1)]} : n \in 0..MaxItems}

DisplayListNewOfBoxes == Assemble(BoxPools)

NextPaint ==
    \/ StackingContextNewPainted
    \/ AddChild
    \/ DisplayListNewOfBoxes
    \/ DrawIntoContext
    \/ DrawStep

SpecPaint == Init /\ [][NextPaint]_vars

(***************************************************************************)
(* Painting slices of a list: draw_into_context for a stacking context of  *)
(* the tree and a window start <= end < len, which is what the assertions  *)
(* of new_partial ask for.                                                 *)
(***************************************************************************)
\* The trees that are painted in slices: Real contexts two pixels wide, at
\* the origin or five pixels to the right.
StackingContextNewSliced ==
    \E x \in PaintedOrigins :
        NewContext("Real", Rect(x, 0, 2 * AU_PER_PX, 2 * AU_PER_PX),
                   Rect(0, 0, 2 * AU_PER_PX, 2 * AU_PER_PX), 0, "normal", Identity, <<>>)

DrawSliceIntoContext ==
    \E size \in ScreenSizes, stacking_context_id \in 0..(MaxCtx - 1),
       start \in 0..(Len(list) - 1) :
        \E end \in start..(Len(list) - 1) :
            /\ stacking_context_id < next_id
            /\ draw_into_context(Identity, size, stacking_context_id, start, end)

NextSlices ==
    \/ StackingContextNewSliced
    \/ AddChild
    \/ DisplayListNewOfBoxes
    \/ DrawSliceIntoContext
    \/ DrawStep

SpecSlices == Init /\ [][NextSlices]_vars

(***************************************************************************)
(* Hit testing of one item: DisplayItem::hit_test.                         *)
(***************************************************************************)
SideOffsets2D(top, right, bottom, left) ==
    [top |-> top, right |-> right, bottom |-> bottom, left |-> left]

BorderDisplayItem(base, border_widths) ==
    [variant |-> "Border", base |-> base, border_widths |-> border_widths]

BoxShadowDisplayItem(base) == [variant |-> "BoxShadow", base |-> base]

interior_rect_of_bounds(border) == border.base.bounds

\* The rect inside the border: the bounds inset by the four widths.
interior_rect(border) ==
    Rect(border.base.bounds.x + border.border_widths.left,
         border.base.bounds.y + border.border_widths.top,
         border.base.bounds.w - (border.border_widths.left + border.border_widths.right),
         border.base.bounds.h - (border.border_widths.top + border.border_widths.bottom))

\* DisplayItem::hit_test: Some(metadata) or None.
DisplayItem_hit_test(self, point) ==
    IF ~might_intersect_point(self.base.clip, point) THEN <<>>
    ELSE IF ~RectContains(self.base.bounds, point) THEN <<>>
    ELSE IF self.base.metadata.pointing = <<>> THEN <<>>
    ELSE IF self.variant = "Border" /\ RectContains(interior_rect(self), point) THEN <<>>
    ELSE IF self.variant = "BoxShadow" THEN <<>>
    ELSE <<self.base.metadata>>

\* The items and points of the hit tests of one item: a box of 100 pixels
\* at the origin or 20 pixels off, borders 10 pixels wide, uneven, or wider
\* than the box, and clips that leave the box alone, keep its left half, or
\* keep its upper half through a rounded rect.
HitBounds == {Rect(0, 0, 100 * AU_PER_PX, 100 * AU_PER_PX),
              Rect(20 * AU_PER_PX, 20 * AU_PER_PX, 100 * AU_PER_PX, 100 * AU_PER_PX)}

HitClips(bounds) ==
    {ClippingRegion_max,
     ClippingRegion_from_rect(Rect(bounds.x, bounds.y, 50 * AU_PER_PX, bounds.h)),
     [main |-> MaxRect,
      complex |-> <<[rect |-> Rect(bounds.x, bounds.y, bounds.w, 50 * AU_PER_PX),
                     radii |-> BorderRadii_all_same(AU_PER_PX)]>>]}

HitBorderWidths ==
    {SideOffsets2D(10 * AU_PER_PX, 10 * AU_PER_PX, 10 * AU_PER_PX, 10 * AU_PER_PX),
     SideOffsets2D(20 * AU_PER_PX, 30 * AU_PER_PX, 40 * AU_PER_PX, 10 * AU_PER_PX),
     SideOffsets2D(60 * AU_PER_PX, 60 * AU_PER_PX, 60 * AU_PER_PX, 60 * AU_PER_PX)}

HitBases ==
    {BaseDisplayItem_new(bounds, DisplayItemMetadata(1, pointing), clip, "Content", RootId) :
        bounds \in HitBounds, pointing \in {<<>>, <<"Default">>},
        clip \in UNION {HitClips(b) : b \in HitBounds}}

HitItems ==
    {SolidColorDisplayItem(base, 1) : base \in HitBases}
    \cup {BoxShadowDisplayItem(base) : base \in HitBases}
    \cup {BorderDisplayItem(base, border_widths) :
             base \in HitBases, border_widths \in HitBorderWidths}

HitCoordinates == {-1, 0, 5, 10, 25, 50, 89, 90, 99, 100, 110}
HitPoints == {Point(x * AU_PER_PX, y * AU_PER_PX) : x, y \in HitCoordinates}

\* Layout builds a display item.
ItemNew ==
    \E item \in HitItems :
        /\ phase = "layout"
        /\ all_items = <<>>
        /\ all_items' = <<item>>
        /\ UNCHANGED <<region, cursors, draw_targets, paint_contexts, trace, contexts, next_id, phase, root_stacking_context, list,
                       traversal, returned, made_by>>
        /\ UNCHANGED <<calls, replay>>

\* item.hit_test(point)
ItemHitTest ==
    \E point \in HitPoints :
        /\ phase = "layout"
        /\ all_items # <<>>
        /\ status = "idle"
        /\ request' = [call |-> "DisplayItem::hit_test", point |-> point]
        /\ result' = DisplayItem_hit_test(all_items[1], point)
        /\ status' = "returned"
        /\ UNCHANGED <<region, cursors, draw_targets, paint_contexts, trace, contexts, next_id, phase, root_stacking_context, all_items, list,
                       traversal, returned, made_by>>
        /\ UNCHANGED <<calls, frames, painted, decided, seen, tested>>

NextHitItem == ItemNew \/ ItemHitTest

SpecHitItem == Init /\ [][NextHitItem]_vars

(***************************************************************************)
(* Hit testing of a list: hit_test, hit_test_contents and                  *)
(* hit_test_stacking_context.  A step is one turn of the loop of the       *)
(* innermost hit_test_contents.                                            *)
(***************************************************************************)
FixedPosition == <<[scroll_policy |-> "FixedPosition"]>>

HitFrame(stacking_context_id, translated_point) ==
    [stacking_context_id |-> stacking_context_id, translated_point |-> translated_point]

ContextPoint_scrolling_root(stacking_context, translated_point) ==
    LET is_fixed == stacking_context.layer_info = FixedPosition
        point == Point(translated_point.x - stacking_context.bounds.x,
                       translated_point.y - stacking_context.bounds.y)
        inv_transform == Inverse(stacking_context.transform)[1]
        frac_point == TransformPoint(inv_transform, Point(ToF32Px(point.x), ToF32Px(point.y)))
        local == IF is_fixed THEN request.client_point
                 ELSE Point(FromF32Px(frac_point.x), FromF32Px(frac_point.y))
        scroll_offsets == request.scroll_offsets
    IN  IF ~is_fixed /\ stacking_context.id \in DOMAIN scroll_offsets
        THEN Point(local.x - FromF32Px(scroll_offsets[stacking_context.id].x),
                   local.y - FromF32Px(scroll_offsets[stacking_context.id].y))
        ELSE local

\* The point hit_test_stacking_context hands to hit_test_contents, when the
\* transform can be inverted or the context is fixed.
ContextPoint(stacking_context, translated_point) ==
    LET is_fixed == stacking_context.layer_info = FixedPosition
        point == Point(translated_point.x - stacking_context.bounds.x,
                       translated_point.y - stacking_context.bounds.y)
        inv_transform == Inverse(stacking_context.transform)[1]
        frac_point == TransformPoint(inv_transform, Point(ToF32Px(point.x), ToF32Px(point.y)))
        local == IF is_fixed THEN request.client_point
                 ELSE Point(FromF32Px(frac_point.x), FromF32Px(frac_point.y))
        scroll_offsets == request.scroll_offsets
    IN  IF /\ ~is_fixed
           /\ stacking_context.id # RootId
           /\ stacking_context.id \in DOMAIN scroll_offsets
        THEN Point(local.x - FromF32Px(scroll_offsets[stacking_context.id].x),
                   local.y - FromF32Px(scroll_offsets[stacking_context.id].y))
        ELSE local

HitTestPoints == {Point(2 * AU_PER_PX, AU_PER_PX), Point(0, AU_PER_PX)}
ClientPoints == {Point(0, 0)}
\* No offsets, or an offset of one pixel for the root and its first descendant.
ScrollOffsetMaps == {<<>>, [id \in {RootId, 1} |-> Point(1, 0)]}

\* display_list.hit_test(&translated_point, &client_point, &scroll_offsets)
hit_test(translated_point, client_point, scroll_offsets) ==
    /\ phase = "assembled"
    /\ status = "idle"
    /\ traversal = NoTraversal
    /\ traversal' = DisplayListTraversal_new(list)
    /\ made_by' = "new"
    /\ request' = [call |-> "hit_test",
                   translated_point |-> translated_point,
                   client_point |-> client_point,
                   scroll_offsets |-> scroll_offsets]
    /\ frames' = <<HitFrame(None, translated_point)>>
    /\ status' = "hit_testing"
    /\ UNCHANGED <<region, cursors, draw_targets, paint_contexts, trace,
                   contexts, next_id, phase, root_stacking_context, all_items, list,
                   returned, target_id, skipped, painted, decided, seen, result, tested>>

HitTest ==
    \E translated_point \in HitTestPoints, client_point \in ClientPoints,
       scroll_offsets \in ScrollOffsetMaps :
        hit_test(translated_point, client_point, scroll_offsets)

\* The Pop arm going on with the loop instead of returning.
HitReturn_staying(after) ==
    /\ traversal' = after
    /\ UNCHANGED <<frames, status, result, tested>>

\* hit_test_contents returns to its caller.
HitReturn(after) ==
    /\ traversal' = after
    /\ frames' = SubSeq(frames, 1, Len(frames) - 1)
    /\ status' = IF Len(frames) = 1 THEN "returned" ELSE status
    /\ UNCHANGED <<result, tested>>

\* The Push arm: hit_test_stacking_context up to its call of hit_test_contents.
\* inverse().unwrap() panics when the transform of a context that is not
\* fixed has no inverse.
HitPush(index, after) ==
    LET frame == frames[Len(frames)]
        stacking_context == ItemAt(index).stacking_context
    IN  /\ traversal' = after
        /\ IF /\ stacking_context.layer_info # FixedPosition
              /\ Inverse(stacking_context.transform) = <<>>
           THEN /\ status' = "panicked"
                /\ UNCHANGED frames
           ELSE /\ frames' = Append(frames,
                                    HitFrame(stacking_context.id,
                                             ContextPoint(stacking_context,
                                                          frame.translated_point)))
                /\ UNCHANGED status
        /\ UNCHANGED <<result, tested>>

HitItem_prepending(index, after) ==
    LET frame == frames[Len(frames)]
        meta == DisplayItem_hit_test(ItemAt(index), frame.translated_point)
    IN  /\ traversal' = after
        /\ result' = IF meta # <<>> THEN <<meta[1]>> \o result ELSE result
        /\ tested' = Append(tested, [index |-> index, point |-> frame.translated_point])
        /\ UNCHANGED <<frames, status>>

\* The last arm of hit_test_contents.
HitItem(index, after) ==
    LET frame == frames[Len(frames)]
        meta == DisplayItem_hit_test(ItemAt(index), frame.translated_point)
    IN  /\ traversal' = after
        /\ result' = IF meta # <<>> THEN Append(result, meta[1]) ELSE result
        /\ tested' = Append(tested, [index |-> index, point |-> frame.translated_point])
        /\ UNCHANGED <<frames, status>>

HitStep ==
    /\ status = "hit_testing"
    /\ LET r == next(traversal)
       IN  IF r.item = None THEN HitReturn(r.self)
           ELSE IF IsPush(ItemAt(r.item)) THEN HitPush(r.item, r.self)
           ELSE IF IsPop(ItemAt(r.item)) THEN HitReturn(r.self)
           ELSE HitItem(r.item, r.self)
    /\ UNCHANGED <<region, cursors, draw_targets, paint_contexts, trace, contexts, next_id, phase, root_stacking_context, all_items, list,
                   returned, made_by, target_id, skipped, painted, decided, seen, request>>

\* The trees that are hit-tested: Real contexts one pixel off their parent,
\* with the identity or with a transform that has no inverse, the latter
\* fixed or not.
HitContextKinds ==
    {[transform |-> Identity, layer_info |-> <<>>],
     [transform |-> Matrix(0, 1, 1, 0), layer_info |-> <<>>],
     [transform |-> Matrix(0, 1, 1, 0), layer_info |-> FixedPosition]}

StackingContextNewHit ==
    \E kind \in HitContextKinds :
        NewContext("Real", Rect(AU_PER_PX, 0, 2 * AU_PER_PX, 2 * AU_PER_PX),
                   Rect(0, 0, 2 * AU_PER_PX, 2 * AU_PER_PX), 0, "normal",
                   kind.transform, kind.layer_info)

\* Pools of two-pixel boxes that take pointer events: the first in the
\* Content section, the others in the Outlines section, which comes after
\* the child contexts.
TargetPools ==
    UNION {{[i \in 1..n |->
                SolidColorDisplayItem(
                    BaseDisplayItem_new(Rect(0, 0, 2 * AU_PER_PX, 2 * AU_PER_PX),
                                        DisplayItemMetadata(i, <<"Default">>),
                                        ClippingRegion_max,
                                        IF i = 1 THEN "Content" ELSE "Outlines", f[i]), 1)] :
               f \in [1..n -> 0..(MaxCtx - 1)]} : n \in 0..MaxItems}

DisplayListNewOfTargets == Assemble(TargetPools)

NextHit ==
    \/ StackingContextNewHit
    \/ AddChild
    \/ DisplayListNewOfTargets
    \/ HitTest
    \/ HitStep

SpecHit == Init /\ [][NextHit]_vars

(***************************************************************************)
(* Painting and hit testing lists of mixed items: boxes, images with and   *)
(* without data and WebGL items, in the trees that are hit-tested.         *)
(***************************************************************************)
MixedItems(base) ==
    {SolidColorDisplayItem(base, 1), WebGLDisplayItem(base),
     ImageDisplayItem(base, <<>>), ImageDisplayItem(base, <<"bytes">>)}

MixedPools ==
    UNION {{[i \in 1..n |-> f[i]] :
               f \in [1..n -> UNION {MixedItems(
                                        BaseDisplayItem_new(
                                            Rect(0, 0, 2 * AU_PER_PX, 2 * AU_PER_PX),
                                            DisplayItemMetadata(1, <<"Default">>),
                                            ClippingRegion_max, "Content", id)) :
                                     id \in 0..(MaxCtx - 1)}]} : n \in 0..MaxItems}

DisplayListNewOfMixed == Assemble(MixedPools)

NextReplay ==
    \/ StackingContextNewHit
    \/ AddChild
    \/ DisplayListNewOfMixed
    \/ DrawIntoContext
    \/ DrawStep
    \/ HitTest
    \/ HitStep

SpecReplay == Init /\ [][NextReplay]_vars

(***************************************************************************)
(* Comparing stacking contexts: contexts of any type and z-index, and      *)
(* a.cmp(&b) on two of them.                                               *)
(***************************************************************************)
StackingContextNewOfAnyOrder ==
    \E context_type \in StackingContextTypes, z_index \in ZIndexes :
        NewContext(context_type, ZeroRect, ZeroRect, z_index, "normal", Identity, <<>>)

\* self.cmp(&other)
Compare ==
    \E self \in contexts, other \in contexts :
        /\ phase = "layout"
        /\ request' = [call |-> "cmp", self |-> self, other |-> other]
        /\ result' = <<cmp(self, other)>>
        /\ UNCHANGED <<region, cursors, draw_targets, paint_contexts, trace, contexts, next_id, phase, root_stacking_context, all_items, list,
                       traversal, returned, made_by, calls,
                       frames, painted, decided, seen, tested, status>>

NextOrder == StackingContextNewOfAnyOrder \/ Compare

SpecOrder == Init /\ [][NextOrder]_vars

(***************************************************************************)
(* Building clipping regions: the constructors, intersect_rect,            *)
(* intersect_with_rounded_rect and translate of ClippingRegion, and        *)
(* BaseDisplayItem::new with the region built.  Lengths are small numbers  *)
(* of Au.                                                                  *)
(***************************************************************************)
\* The longest list of complex regions that is intersected further.
MaxComplex == 3

FromRects == {Rect(0, 0, 4, 4), Rect(2, 0, 6, 8), Rect(0, 0, 8, 8), Rect(-1, -1, 10, 10)}
IntersectRects == {Rect(0, 0, 4, 4), Rect(2, 0, 6, 8), Rect(9, 9, 2, 2), MaxRect}
RoundedRects ==
    {Rect(0, 0, 6, 8), Rect(2, 0, 6, 8), Rect(3, 0, 3, 8), Rect(4, 0, 1, 8), Rect(-1, -1, 10, 10),
     Rect(3, 3, 2, 2)}
Radii ==
    {BorderRadii_all_same(0), BorderRadii_all_same(4),
     BorderRadii(Size(2, 1), Size(0, 0), Size(1, 3), Size(0, 0))}
ItemBounds == {Rect(0, 0, 4, 4), Rect(2, 0, 6, 8), Rect(1, 1, 2, 2)}
Deltas == {Point(1, 0), Point(-2, 3)}

ClipUnchanged ==
    UNCHANGED <<cursors, draw_targets, paint_contexts, trace,
                contexts, next_id, phase, root_stacking_context, all_items, list,
                traversal, returned, made_by, calls,
                frames, painted, decided, seen, tested, status>>

\* ClippingRegion::empty(), max() or from_rect(&rect)
ClippingRegionNew ==
    \E new \in {ClippingRegion_empty, ClippingRegion_max}
               \cup {ClippingRegion_from_rect(rect) : rect \in FromRects} :
        /\ phase = "layout"
        /\ region' = new
        /\ request' = NoRequest
        /\ result' = <<>>
        /\ ClipUnchanged

\* region.intersect_rect(&rect)
IntersectRect ==
    \E rect \in IntersectRects :
        /\ phase = "layout"
        /\ region' = intersect_rect(region, rect)
        /\ request' = [call |-> "intersect_rect", self |-> region, rect |-> rect]
        /\ result' = <<>>
        /\ ClipUnchanged

\* region.intersect_with_rounded_rect(&rect, &radii)
IntersectWithRoundedRect ==
    \E rect \in RoundedRects, radii \in Radii :
        /\ phase = "layout"
        /\ Len(region.complex) < MaxComplex
        /\ region' = intersect_with_rounded_rect(region, rect, radii)
        /\ request' = [call |-> "intersect_with_rounded_rect", self |-> region,
                       rect |-> rect, radii |-> radii]
        /\ result' = <<>>
        /\ ClipUnchanged

\* region.translate(&delta)
Translate ==
    \E delta \in Deltas :
        /\ phase = "layout"
        /\ result' = <<translate(region, delta)>>
        /\ request' = [call |-> "translate", self |-> region, delta |-> delta]
        /\ UNCHANGED region
        /\ ClipUnchanged

\* BaseDisplayItem::new(&bounds, metadata, &region, section, stacking_context_id)
BaseDisplayItemNew ==
    \E bounds \in ItemBounds :
        /\ phase = "layout"
        /\ result' = <<BaseDisplayItem_new(bounds, DisplayItemMetadata(1, <<>>), region,
                                           "Content", RootId)>>
        /\ request' = [call |-> "BaseDisplayItem::new", bounds |-> bounds, clip |-> region]
        /\ UNCHANGED region
        /\ ClipUnchanged

NextClip ==
    \/ ClippingRegionNew
    \/ IntersectRect
    \/ IntersectWithRoundedRect
    \/ Translate
    \/ BaseDisplayItemNew

SpecClip == Init /\ [][NextClip]_vars

(***************************************************************************)
(* Several traversals over one list: each cursor is a DisplayListTraversal *)
(* of its own, made by new or new_partial, and borrows the list.  They     *)
(* run next to a paint replay and a hit test of the same list.             *)
(***************************************************************************)
MaxCursors == 2

\* A cursor as it was made, as it is now, and what its next() has returned;
\* it is left alone once it has returned None.
Cursor(self) == [made |-> self, self |-> self, returned |-> <<>>]

Nones(s) == Cardinality({k \in 1..Len(s) : s[k] = None})

\* DisplayListTraversal::new(&display_list)
CursorNew ==
    /\ phase = "assembled"
    /\ Len(cursors) < MaxCursors
    /\ cursors' = Append(cursors, Cursor(DisplayListTraversal_new(list)))
    /\ UNCHANGED <<region, draw_targets, paint_contexts, trace, contexts, next_id, phase,
                   root_stacking_context, all_items, list, traversal, returned, made_by>>
    /\ UNCHANGED <<calls, replay>>

\* DisplayListTraversal::new_partial(&display_list, stacking_context_id, start, end),
\* for the slices of three entries and the shorter ones at the end of the list.
CursorNewPartial ==
    \E stacking_context_id \in 0..(next_id - 1), start \in 0..(Len(list) - 1),
       end \in 0..(Len(list) - 1) :
        /\ phase = "assembled"
        /\ Len(cursors) < MaxCursors
        /\ end = Min(start + 2, Len(list) - 1)
        /\ cursors' = Append(cursors, Cursor(DisplayListTraversal_new_partial(
                                                 list, stacking_context_id, start, end)))
        /\ UNCHANGED <<region, draw_targets, paint_contexts, trace, contexts, next_id, phase,
                       root_stacking_context, all_items, list, traversal, returned, made_by>>
        /\ UNCHANGED <<calls, replay>>

\* cursors[k].next(), with every cursor reading one shared position.
CursorNext_shared(k) ==
    LET r == next(cursors[k].self)
    IN  /\ Nones(cursors[k].returned) = 0
        /\ cursors' = [j \in 1..Len(cursors) |->
                          IF j = k
                          THEN [cursors[k] EXCEPT !.self = r.self,
                                                  !.returned = Append(@, r.item)]
                          ELSE [cursors[j] EXCEPT !.self.next_item_index =
                                                      r.self.next_item_index]]
        /\ UNCHANGED <<region, draw_targets, paint_contexts, trace, contexts, next_id, phase,
                       root_stacking_context, all_items, list, traversal, returned, made_by>>
        /\ UNCHANGED <<calls, replay>>

\* cursors[k].next()
CursorNext(k) ==
    LET r == next(cursors[k].self)
    IN  /\ Nones(cursors[k].returned) = 0
        /\ cursors' = [cursors EXCEPT ![k].self = r.self,
                                      ![k].returned = Append(@, r.item)]
        /\ UNCHANGED <<region, draw_targets, paint_contexts, trace, contexts, next_id, phase,
                       root_stacking_context, all_items, list, traversal, returned, made_by>>
        /\ UNCHANGED <<calls, replay>>

CursorStep == \E k \in 1..Len(cursors) : CursorNext(k)

\* The trees the cursors run over: a root and at most MaxCtx - 2 more Real
\* contexts, two pixels wide at the origin.
StackingContextNewAtOrigin ==
    /\ next_id < MaxCtx - 1
    /\ NewContext("Real", Rect(0, 0, 2 * AU_PER_PX, 2 * AU_PER_PX),
               Rect(0, 0, 2 * AU_PER_PX, 2 * AU_PER_PX), 0, "normal", Identity, <<>>)

\* The replay and the hit test that run beside the cursors.
DrawBesideCursors ==
    draw_into_context(Identity, 4, root_stacking_context.id, 0, Len(list) - 1)

HitTestBesideCursors == hit_test(Point(0, 0), Point(0, 0), <<>>)

NextCursors ==
    \/ StackingContextNewAtOrigin
    \/ AddChild
    \/ DisplayListNewOfBoxes
    \/ CursorNew
    \/ CursorNewPartial
    \/ CursorStep
    \/ DrawBesideCursors
    \/ DrawStep
    \/ HitTestBesideCursors
    \/ HitStep

SpecCursors == Init /\ [][NextCursors]_vars

(***************************************************************************)
(* Painting on a backend with offscreen targets and transient clips:       *)
(* contexts with a blend mode, with a transform that is the identity, a    *)
(* flip or singular, with or without a layer, one and a half pixels off    *)
(* their parent or not; boxes with one of two clips; a replay of the whole *)
(* list, or draw_item_at_index_into_context on one entry.                  *)
(***************************************************************************)
BackendContextKinds ==
    {[x |-> (3 * AU_PER_PX) \div 2, blend_mode |-> "normal", transform |-> Identity,
      layer_info |-> <<>>],
     [x |-> (3 * AU_PER_PX) \div 2, blend_mode |-> "multiply", transform |-> Matrix(-1, 1, 0, 0),
      layer_info |-> <<>>],
     [x |-> (3 * AU_PER_PX) \div 2, blend_mode |-> "normal", transform |-> Matrix(-1, 1, 0, 0),
      layer_info |-> FixedPosition],
     [x |-> 0, blend_mode |-> "multiply", transform |-> Matrix(0, 1, 0, 0),
      layer_info |-> <<>>]}

StackingContextNewOnBackend ==
    \E kind \in BackendContextKinds :
        NewContext("Real", Rect(kind.x, 0, 2 * AU_PER_PX, 2 * AU_PER_PX),
                   Rect(-2 * AU_PER_PX, 0, 4 * AU_PER_PX, 2 * AU_PER_PX), 0, kind.blend_mode,
                   kind.transform, kind.layer_info)

\* The clips of the boxes: none, and the left pixel column of the box.
BoxClips ==
    {ClippingRegion_max, ClippingRegion_from_rect(Rect(0, 0, AU_PER_PX, 2 * AU_PER_PX))}

\* An opaque box without clip, and an opaque and a transparent clipped one.
BoxChoices ==
    {c \in [id : 0..(MaxCtx - 1), clip : BoxClips, alpha : {0, 1}] :
        c.alpha = 0 => c.clip # ClippingRegion_max}

\* Pools of boxes two pixels wide.
ClippedBoxPools ==
    UNION {{[i \in 1..n |->
                SolidColorDisplayItem(
                    BaseDisplayItem_new(Rect(0, 0, 2 * AU_PER_PX, 2 * AU_PER_PX),
                                        DisplayItemMetadata(i, <<>>),
                                        f[i].clip, "Content", f[i].id), f[i].alpha)] :
               f \in [1..n -> BoxChoices]} :
           n \in 0..MaxItems}

DisplayListNewOfClippedBoxes == Assemble(ClippedBoxPools)

DrawOnBackend == draw_into_context(Identity, 4, root_stacking_context.id, 0, Len(list) - 1)

\* draw_item_at_index_into_context without the set_transform that restores
\* the transform.
draw_item_at_index_into_context_keeping(transform, index) ==
    LET paint_context == paint_contexts[1]
        item == ItemAt(index)
    IN  /\ phase = "assembled"
        /\ status = "idle"
        /\ request' = [call |-> "draw_item_at_index_into_context",
                       transform |-> transform, index |-> index,
                       old_transform |-> draw_targets[paint_context.draw_target]]
        /\ paint_contexts' = <<PaintContextAfter(item, paint_context)>>
        /\ draw_targets' = set_transform(draw_targets, paint_context.draw_target, transform)
        /\ trace' = Logged(trace,
              <<Event("set_transform", 0, None, index, paint_context.draw_target,
                      <<transform>>)>>
              \o (IF DisplayItem_draw_into_context_panics(item) THEN <<>>
                  ELSE ItemDrawn(item, index, paint_context, 0)))
        /\ status' = IF DisplayItem_draw_into_context_panics(item)
                     THEN "panicked" ELSE "returned"
        /\ UNCHANGED <<region, cursors, contexts, next_id, phase, root_stacking_context,
                       all_items, list, traversal, returned, made_by, target_id, skipped,
                       frames, painted, decided, seen, result, tested>>

\* display_list.draw_item_at_index_into_context(paint_context, transform, index)
draw_item_at_index_into_context(transform, index) ==
    LET paint_context == paint_contexts[1]
        draw_target == paint_context.draw_target
        old_transform == draw_targets[draw_target]
        item == ItemAt(index)
        set == Event("set_transform", 0, None, index, draw_target, <<transform>>)
        restored == Event("set_transform", 0, None, index, draw_target, <<old_transform>>)
    IN  /\ phase = "assembled"
        /\ status = "idle"
        /\ request' = [call |-> "draw_item_at_index_into_context",
                       transform |-> transform, index |-> index,
                       old_transform |-> old_transform]
        /\ paint_contexts' = <<PaintContextAfter(item, paint_context)>>
        /\ IF DisplayItem_draw_into_context_panics(item)
           THEN /\ draw_targets' = set_transform(draw_targets, draw_target, transform)
                /\ trace' = Logged(trace, <<set>>)
                /\ status' = "panicked"
           ELSE /\ draw_targets' = set_transform(
                                       set_transform(draw_targets, draw_target, transform),
                                       draw_target, old_transform)
                /\ trace' = Logged(trace, <<set>> \o ItemDrawn(item, index, paint_context, 0)
                                          \o <<restored>>)
                /\ status' = "returned"
        /\ UNCHANGED <<region, cursors, contexts, next_id, phase, root_stacking_context,
                       all_items, list, traversal, returned, made_by, target_id, skipped,
                       frames, painted, decided, seen, result, tested>>

DrawItemAtIndex ==
    \E transform \in PaintTransforms, index \in 0..(Len(list) - 1) :
        draw_item_at_index_into_context(transform, index)

NextBackend ==
    \/ StackingContextNewOnBackend
    \/ AddChild
    \/ DisplayListNewOfClippedBoxes
    \/ DrawOnBackend
    \/ DrawStep
    \/ DrawItemAtIndex

SpecBackend == Init /\ [][NextBackend]_vars

(***************************************************************************)
(* Vocabulary of the properties of an assembled list.                      *)
(***************************************************************************)
Assembled == phase = "assembled"

RECURSIVE Nodes(_)
\* The stacking contexts of a tree.
Nodes(ctx) == {ctx} \cup UNION {Nodes(ctx.children[i]) : i \in 1..Len(ctx.children)}

SubtreeIds(ctx) == {n.id : n \in Nodes(ctx)}

TreeNodes == Nodes(root_stacking_context)
TreeIds == SubtreeIds(root_stacking_context)

RECURSIVE Path(_, _)
\* The contexts from ctx down to the one called id; empty when ctx has none.
Path(ctx, id) ==
    IF ctx.id = id THEN <<ctx>>
    ELSE LET through == {i \in 1..Len(ctx.children) : Path(ctx.children[i], id) # <<>>}
         IN  IF through = {} THEN <<>>
             ELSE <<ctx>> \o Path(ctx.children[CHOOSE i \in through : TRUE], id)

\* The nearest Real context at or above the context called id, NoContext if none.
NearestReal(id) ==
    LET path == Path(root_stacking_context, id)
        reals == {k \in 1..Len(path) : path[k].context_type = "Real"}
    IN  IF reals = {} THEN NoContext
        ELSE path[CHOOSE k \in reals : \A m \in reals : m <= k]

\* The context a list entry belongs to.
EntryOwner(entry) ==
    IF IsPush(entry) THEN entry.stacking_context.id
    ELSE IF IsPop(entry) THEN entry.stacking_context_id
    ELSE entry.base.stacking_context_id

Indices == 1..Len(list)
PushPos(id) == {i \in Indices : IsPush(list[i]) /\ list[i].stacking_context.id = id}
PopPos(id) == {i \in Indices : IsPop(list[i]) /\ list[i].stacking_context_id = id}

\* The entries that the subtree of ctx produced.
EntriesOf(ctx) == {i \in Indices : EntryOwner(list[i]) \in SubtreeIds(ctx)}

\* The own items of a context that are in one of the given sections.
OwnItems(ctx, sections) ==
    {i \in Indices : /\ ~IsMarker(list[i])
                     /\ list[i].base.stacking_context_id = ctx.id
                     /\ list[i].base.section \in sections}

Before(A, B) == \A i \in A, j \in B : i < j

\* The entries strictly inside the bracket of a Real context.
Inside(ctx) ==
    {i \in Indices : /\ \E a \in PushPos(ctx.id) : a < i
                     /\ \E b \in PopPos(ctx.id) : i < b}

PushCount(a, b) == Cardinality({k \in a..b : IsPush(list[k])})
PopCount(a, b) == Cardinality({k \in a..b : IsPop(list[k])})
BalancedRange(a, b) ==
    /\ \A k \in a..b : PushCount(a, k) >= PopCount(a, k)
    /\ PushCount(a, b) = PopCount(a, b)

ChildPairs(parent) ==
    {<<a, b>> \in (1..Len(parent.children)) \X (1..Len(parent.children)) : a < b}

(***************************************************************************)
(* C1: in the list DisplayList::new produces, every PushStackingContext    *)
(* has exactly one PopStackingContext of the same id, after it; the        *)
(* markers between the two are balanced, and no prefix of the list has     *)
(* more Pops than Pushes.                                                  *)
(***************************************************************************)
C1_BalancedMarkers ==
    Assembled =>
        /\ \A n \in Indices : PushCount(1, n) >= PopCount(1, n)
        /\ PushCount(1, Len(list)) = PopCount(1, Len(list))
        /\ \A i \in Indices :
              IsPush(list[i]) =>
                  /\ Cardinality(PopPos(list[i].stacking_context.id)) = 1
                  /\ \A j \in PopPos(list[i].stacking_context.id) :
                        j > i /\ BalancedRange(i + 1, j - 1)

\* A list with a bracket nested in another one and a pseudo context in the tree.
C1_Witness ==
    /\ Assembled
    /\ \E n \in TreeNodes : n.context_type # "Real"
    /\ \E i, j \in Indices :
          /\ i < j /\ IsPush(list[i]) /\ IsPush(list[j])
          /\ Before(PopPos(list[j].stacking_context.id), PopPos(list[i].stacking_context.id))
          /\ PopPos(list[j].stacking_context.id) # {}

(***************************************************************************)
(* C2: every Real context of the tree has exactly one Push and one Pop,    *)
(* in that order, and every marker is of a Real context of the tree; a     *)
(* pseudo context has no marker, and what its subtree produces lies        *)
(* inside the bracket of its nearest Real ancestor.                        *)
(***************************************************************************)
C2_RealBracketedOnce ==
    Assembled =>
        /\ \A i \in Indices :
              IsMarker(list[i]) =>
                  \E n \in TreeNodes : n.id = EntryOwner(list[i]) /\ n.context_type = "Real"
        /\ \A n \in TreeNodes :
              IF n.context_type = "Real"
              THEN /\ Cardinality(PushPos(n.id)) = 1
                   /\ Cardinality(PopPos(n.id)) = 1
                   /\ Before(PushPos(n.id), PopPos(n.id))
              ELSE /\ PushPos(n.id) = {}
                   /\ PopPos(n.id) = {}
                   /\ NearestReal(n.id) # NoContext =>
                          EntriesOf(n) \subseteq Inside(NearestReal(n.id))

\* A pseudo context under a Real one, whose subtree produced entries.
C2_Witness ==
    /\ Assembled
    /\ \E n \in TreeNodes :
          /\ n.context_type # "Real"
          /\ NearestReal(n.id) # NoContext
          /\ EntriesOf(n) # {}
          /\ \E m \in Nodes(n) : m.context_type = "Real"

(***************************************************************************)
(* C3: a pool item whose stacking_context_id names a context of the tree   *)
(* is in the list exactly once, inside the bracket of the nearest Real     *)
(* context at or above its context; a pool item whose id names no context  *)
(* is not in the list; the list holds nothing but markers and pool items   *)
(* (a context without pool items contributes none).                        *)
(***************************************************************************)
C3_ItemsExactlyOnce ==
    Assembled =>
        /\ \A k \in 1..Len(all_items) :
              LET item == all_items[k]
                  at == {i \in Indices : list[i] = item}
                  id == item.base.stacking_context_id
              IN  IF id \in TreeIds
                  THEN /\ Cardinality(at) = 1
                       /\ NearestReal(id) # NoContext => at \subseteq Inside(NearestReal(id))
                  ELSE at = {}
        /\ \A i \in Indices :
              ~IsMarker(list[i]) => \E k \in 1..Len(all_items) : all_items[k] = list[i]

\* A pool with a dropped item and two items of one pseudo context under a
\* Real one, and a context that has no pool item.
C3_Witness ==
    /\ Assembled
    /\ \E k \in 1..Len(all_items) : all_items[k].base.stacking_context_id \notin TreeIds
    /\ \E n \in TreeNodes : \A k \in 1..Len(all_items) : all_items[k].base.stacking_context_id # n.id
    /\ \E n \in TreeNodes :
          /\ n.context_type # "Real"
          /\ NearestReal(n.id) # NoContext
          /\ OwnItems(n, DisplayListSections) # {}

(***************************************************************************)
(* C4: the items of one context are in the list with non-decreasing        *)
(* sections, and two items of the same section, whichever of the four,     *)
(* are in the order they had in the pool.                                  *)
(***************************************************************************)
C4_SectionsInPoolOrder ==
    Assembled =>
        \A i, j \in Indices :
            (/\ i < j
             /\ ~IsMarker(list[i]) /\ ~IsMarker(list[j])
             /\ list[i].base.stacking_context_id = list[j].base.stacking_context_id) =>
                /\ SectionOrd(list[i].base.section) <= SectionOrd(list[j].base.section)
                /\ list[i].base.section = list[j].base.section =>
                       list[i].base.node < list[j].base.node

(***************************************************************************)
(* C5: the subtrees of two children of one context are in the list in the  *)
(* order of StackingContext::cmp, and in the order of the children list    *)
(* when they compare Equal.                                                *)
(***************************************************************************)
C5_ChildrenInCmpOrder ==
    Assembled =>
        \A parent \in TreeNodes :
            \A pair \in ChildPairs(parent) :
                LET first == parent.children[pair[1]]
                    second == parent.children[pair[2]]
                IN  IF cmp(first, second) = "Greater"
                    THEN Before(EntriesOf(second), EntriesOf(first))
                    ELSE Before(EntriesOf(first), EntriesOf(second))

\* Two children that compare Equal and two that the sort exchanges, all
\* with entries in the list.
C5_Witness ==
    /\ Assembled
    /\ \E parent \in TreeNodes :
          \E pair \in ChildPairs(parent) :
              /\ cmp(parent.children[pair[1]], parent.children[pair[2]]) = "Equal"
              /\ parent.children[pair[1]].context_type # parent.children[pair[2]].context_type
              /\ EntriesOf(parent.children[pair[1]]) # {}
              /\ EntriesOf(parent.children[pair[2]]) # {}

(***************************************************************************)
(* C6: what the subtree of a child with z_index < 0 produces comes after   *)
(* the parent's own BackgroundAndBorders items and before the parent's     *)
(* own items of the three other sections.                                  *)
(***************************************************************************)
C6_NegativeChildrenAfterBackground ==
    Assembled =>
        \A parent \in TreeNodes :
            \A c \in 1..Len(parent.children) :
                parent.children[c].z_index < 0 =>
                    /\ Before(OwnItems(parent, {"BackgroundAndBorders"}),
                              EntriesOf(parent.children[c]))
                    /\ Before(EntriesOf(parent.children[c]),
                              OwnItems(parent, {"BlockBackgroundsAndBorders", "Content", "Outlines"}))

C6_Witness ==
    /\ Assembled
    /\ \E parent \in TreeNodes :
          \E c \in 1..Len(parent.children) :
              /\ parent.children[c].z_index < 0
              /\ EntriesOf(parent.children[c]) # {}
              /\ OwnItems(parent, {"BackgroundAndBorders"}) # {}
              /\ OwnItems(parent, {"BlockBackgroundsAndBorders", "Content", "Outlines"}) # {}

(***************************************************************************)
(* C7: what the subtree of a PseudoFloat child with z_index = 0 produces   *)
(* comes after the parent's own BlockBackgroundsAndBorders items and       *)
(* before the parent's own Content and Outlines items, and the child has   *)
(* no marker of its own.                                                   *)
(***************************************************************************)
C7_FloatsAfterBlockBackgrounds ==
    Assembled =>
        \A parent \in TreeNodes :
            \A c \in 1..Len(parent.children) :
                (parent.children[c].z_index = 0 /\ parent.children[c].context_type = "PseudoFloat") =>
                    /\ Before(OwnItems(parent, {"BlockBackgroundsAndBorders"}),
                              EntriesOf(parent.children[c]))
                    /\ Before(EntriesOf(parent.children[c]),
                              OwnItems(parent, {"Content", "Outlines"}))
                    /\ PushPos(parent.children[c].id) = {}
                    /\ PopPos(parent.children[c].id) = {}

C7_Witness ==
    /\ Assembled
    /\ \E parent \in TreeNodes :
          \E c \in 1..Len(parent.children) :
              /\ parent.children[c].z_index = 0
              /\ parent.children[c].context_type = "PseudoFloat"
              /\ EntriesOf(parent.children[c]) # {}
              /\ OwnItems(parent, {"BlockBackgroundsAndBorders"}) # {}
              /\ OwnItems(parent, {"Content", "Outlines"}) # {}

(***************************************************************************)
(* C8: what the subtree of a child with z_index > 0, or of a child with    *)
(* z_index = 0 that is not a PseudoFloat, produces comes after the         *)
(* parent's own Content items and before the parent's own Outlines items;  *)
(* the Outlines items of a Real context are the last entries before its    *)
(* Pop.                                                                    *)
(***************************************************************************)
C8_PositionedAfterContent ==
    Assembled =>
        \A parent \in TreeNodes :
            /\ \A c \in 1..Len(parent.children) :
                  (\/ parent.children[c].z_index > 0
                   \/ (parent.children[c].z_index = 0
                       /\ parent.children[c].context_type # "PseudoFloat")) =>
                      /\ Before(OwnItems(parent, {"Content"}), EntriesOf(parent.children[c]))
                      /\ Before(EntriesOf(parent.children[c]), OwnItems(parent, {"Outlines"}))
            /\ \A o \in OwnItems(parent, {"Outlines"}), p \in PopPos(parent.id) :
                  /\ o < p
                  /\ (o + 1)..(p - 1) \subseteq OwnItems(parent, {"Outlines"})

(***************************************************************************)
(* C9: after parent.add_child(child), the overflow of a Real parent        *)
(* contains overflow_rect_in_parent_space() of each of its Real children,  *)
(* the one just added and those added before.                              *)
(***************************************************************************)
ContainsRect(outer, inner) ==
    /\ outer.x <= inner.x
    /\ outer.y <= inner.y
    /\ inner.x + inner.w <= outer.x + outer.w
    /\ inner.y + inner.h <= outer.y + outer.h

C9_OverflowContainsChildren ==
    \A parent \in contexts :
        \A c \in 1..Len(parent.children) :
            (parent.context_type = "Real" /\ parent.children[c].context_type = "Real") =>
                ContainsRect(parent.overflow,
                             overflow_rect_in_parent_space(parent.children[c]))

(***************************************************************************)
(* C10: a traversal made by DisplayListTraversal::new on which only next() *)
(* is called returns the items at the indices 0, 1, ..., len - 1 in that   *)
(* order, each once, and None from then on.                                *)
(***************************************************************************)
C10_FullTraversalInOrder ==
    made_by = "new" =>
        /\ \A k \in 1..Len(returned) :
              returned[k] = IF k <= Len(list) THEN k - 1 ELSE None
        /\ traversal.next_item_index = Min(Len(returned), Len(list))

\* A list of markers and items returned whole, and None twice after it.
C10_Witness ==
    /\ made_by = "new"
    /\ Len(list) >= 4
    /\ \E i \in Indices : ~IsMarker(list[i])
    /\ Len(returned) >= Len(list) + 2


(***************************************************************************)
(* Vocabulary of the properties of traversals.                             *)
(***************************************************************************)
\* The indices next() has returned, without the Nones.
ReturnedIndices == SelectSeq(returned, LAMBDA i : i # None)

RECURSIVE Drain(_)
\* What repeated next() returns until the first None.
Drain(self) ==
    LET r == next(self)
    IN  IF r.item = None THEN <<>> ELSE <<r.item>> \o Drain(r.self)

NonBrackets(indices) == SelectSeq(indices, LAMBDA i : ~IsMarker(ItemAt(i)))

\* The indices a..b that hold a marker, in list order.
MarkersIn(a, b) ==
    SelectSeq([i \in 1..(b - a + 1) |-> a + i - 1], LAMBDA i : IsMarker(ItemAt(i)))

OnlyNextCalled == made_by = "new_partial" /\ skipped = <<>> /\ status = "idle"

(***************************************************************************)
(* C11: a traversal made by new_partial(target, start, end) on which only  *)
(* next() is called returns, below start, markers only; it returns every   *)
(* index of start..end exactly once and in list order, None only after     *)
(* them, and no index above end.                                           *)
(***************************************************************************)
C11_PartialWindow ==
    OnlyNextCalled =>
        LET start == traversal.first_item_index
            end == traversal.last_item_index - 1
            got == ReturnedIndices
        IN  /\ \A k \in 1..Len(got) : got[k] < start => IsMarker(ItemAt(got[k]))
            /\ \A k \in 1..Len(got) : got[k] <= end
            /\ \A k \in 1..(Len(got) - 1) : got[k] < got[k + 1]
            /\ \A i \in start..end :
                  i < traversal.next_item_index =>
                      Cardinality({k \in 1..Len(got) : got[k] = i}) = 1
            /\ NoneCount > 0 => traversal.next_item_index = end + 1
            /\ \A k \in 1..(Len(returned) - 1) : returned[k] = None => returned[k + 1] = None

\* An exhausted partial traversal that returned a marker below start, passed
\* over an item below start, and stopped before the end of the list.
C11_Witness ==
    /\ OnlyNextCalled
    /\ NoneCount > 0
    /\ traversal.last_item_index < Len(list)
    /\ \E k \in 1..Len(ReturnedIndices) : ReturnedIndices[k] < traversal.first_item_index
    /\ \E i \in 0..(traversal.first_item_index - 1) :
          /\ ~IsMarker(ItemAt(i))
          /\ \E k \in 1..Len(ReturnedIndices) : ReturnedIndices[k] < i
    /\ \E k \in 1..Len(ReturnedIndices) : ~IsMarker(ItemAt(ReturnedIndices[k]))

(***************************************************************************)
(* C12: new_partial(target, start, end) puts the cursor on the largest     *)
(* index p <= start that holds the PushStackingContext of target, and on   *)
(* start when there is none.                                               *)
(***************************************************************************)
C12_PartialStartsAtPush ==
    (made_by = "new_partial" /\ returned = <<>> /\ skipped = <<>>) =>
        LET start == traversal.first_item_index
            at == {p \in 0..start : /\ IsPush(ItemAt(p))
                                    /\ ItemAt(p).stacking_context.id = target_id}
        IN  traversal.next_item_index =
                IF at = {} THEN start ELSE CHOOSE p \in at : \A q \in at : q <= p

\* A fresh partial traversal of a context that is not the first of the list,
\* with items between its Push and start.
C12_Witness ==
    /\ made_by = "new_partial" /\ returned = <<>> /\ skipped = <<>>
    /\ traversal.next_item_index > 0
    /\ traversal.next_item_index + 1 < traversal.first_item_index
    /\ IsPush(ItemAt(traversal.next_item_index))

(***************************************************************************)
(* C13: with a Real root and 1 <= k <= len - 1, the items (markers left    *)
(* out) of the partial traversal (root, 0, k - 1) followed by those of     *)
(* the partial traversal (root, k, len - 1) are the items of the full      *)
(* traversal, and below k the second traversal returns exactly the         *)
(* markers of 0..k-1, in order.                                            *)
(***************************************************************************)
C13_SplitTraversal ==
    (/\ OnlyNextCalled
     /\ NoneCount > 0
     /\ root_stacking_context.context_type = "Real"
     /\ target_id = root_stacking_context.id
     /\ traversal.first_item_index >= 1
     /\ traversal.last_item_index = Len(list)) =>
        LET k == traversal.first_item_index
            second == ReturnedIndices
            first == Drain(DisplayListTraversal_new_partial(
                               list, root_stacking_context.id, 0, k - 1))
            full == Drain(DisplayListTraversal_new(list))
        IN  /\ NonBrackets(first) \o NonBrackets(second) = NonBrackets(full)
            /\ SelectSeq(second, LAMBDA i : i < k) = MarkersIn(0, k - 1)

\* The second half of a split that has items on both sides and a nested
\* bracket before the split point.
C13_Witness ==
    /\ OnlyNextCalled
    /\ NoneCount > 0
    /\ root_stacking_context.context_type = "Real"
    /\ target_id = root_stacking_context.id
    /\ traversal.last_item_index = Len(list)
    /\ \E i \in 0..(traversal.first_item_index - 1) : ~IsMarker(ItemAt(i))
    /\ \E i \in traversal.first_item_index..(Len(list) - 1) : ~IsMarker(ItemAt(i))
    /\ Len(MarkersIn(0, traversal.first_item_index - 1)) >= 2

(***************************************************************************)
(* C14: skip_to_end_of_stacking_context(id), called right after next()     *)
(* returned the Push of id, leaves the cursor on the index in the whole    *)
(* list of the matching Pop, never moves the cursor backwards, and the     *)
(* next() that follows returns that Pop.                                   *)
(***************************************************************************)
C14_SkipLandsOnMatchingPop ==
    \A k \in 1..Len(skipped) :
        LET s == skipped[k]
        IN  /\ (s.to + 1) \in PopPos(s.id)
            /\ s.to >= s.from
            /\ Len(returned) > s.at => returned[s.at + 1] = s.to


(***************************************************************************)
(* Vocabulary of the properties of a paint replay.                         *)
(***************************************************************************)
\* The indices (from 0) strictly between the Push and the Pop of a context.
Bracket(id) == {i - 1 : i \in Inside([id |-> id])}

\* The contexts whose brackets enclose index i, outermost first.
EnclosingChain(i) ==
    LET ids == {id \in TreeIds : i \in Bracket(id)}
        push(id) == CHOOSE a \in PushPos(id) : TRUE
    IN  [k \in 1..Cardinality(ids) |->
            CHOOSE id \in ids : Cardinality({o \in ids : push(o) < push(id)}) = k - 1]

Decided(what) == {d \in decided : d.what = what}

AllInvertible == Assembled /\ \A n \in TreeNodes : Inverse(n.transform) # <<>>

(***************************************************************************)
(* C15: when the replay meets the Push of a Real context whose overflow    *)
(* rect in parent space does not intersect the tile rect, no draw call is  *)
(* issued for an item between that Push and its Pop, and no context        *)
(* nested in it is entered.  (Lists in which every transform is            *)
(* invertible.)                                                            *)
(***************************************************************************)
C15_CulledContextNotPainted ==
    AllInvertible =>
        \A d \in Decided("culled") :
            /\ \A q \in painted : q.index \notin Bracket(d.id)
            /\ \A e \in Decided("drawn") : e.index \notin Bracket(d.id)

(***************************************************************************)
(* C16: draw_into_context comes to an end, whatever the list and the       *)
(* tile, culled contexts included.  The loop of draw_with_state is         *)
(* deterministic, so it comes to an end only if it is never again in a     *)
(* configuration (cursor and call stack) that it has left.  (Lists in      *)
(* which every transform is invertible.)                                   *)
(***************************************************************************)
C16_PaintTerminates ==
    (AllInvertible /\ status = "painting") => Configuration \notin seen

(***************************************************************************)
(* C17: when the transform composed for a context is not invertible, no    *)
(* item between its Push and its Pop is painted, in any frame, no context  *)
(* nested in it is entered, and what follows its Pop is painted in the     *)
(* frames of the contexts that enclose it.  (Replays that cull nothing.)   *)
(***************************************************************************)
C17_NotInvertibleSubtreeSkipped ==
    Decided("culled") = {} =>
        \A d \in Decided("not_invertible") :
            /\ \A q \in painted : q.index \notin Bracket(d.id)
            /\ \A e \in Decided("drawn") : e.index \notin Bracket(d.id)
            /\ \A q \in painted :
                  (\A b \in PopPos(d.id) : q.index + 1 > b) => q.chain = EnclosingChain(q.index)

(***************************************************************************)
(* Vocabulary of the properties of hit tests.                              *)
(***************************************************************************)
\* The contexts hit_test cannot map a point into.
Unreachable ==
    {n \in TreeNodes : n.layer_info # FixedPosition /\ Inverse(n.transform) = <<>>}

\* The non-bracket entries that no unreachable context encloses.
Reachable ==
    {i \in 0..(Len(list) - 1) :
        /\ ~IsMarker(ItemAt(i))
        /\ \A n \in Unreachable : i \notin Bracket(n.id)}

\* The entries whose metadata is in the result.
Hit == {i \in 0..(Len(list) - 1) :
           /\ ~IsMarker(ItemAt(i))
           /\ \E k \in 1..Len(result) : result[k] = ItemAt(i).base.metadata}

TestedItem == all_items[1]
TestedPoint == request.point
ItemTested == request.call = "DisplayItem::hit_test"

\* The point is in the bounds inset by the four widths.
InInterior(border, p) ==
    /\ border.base.bounds.x + border.border_widths.left <= p.x
    /\ p.x < border.base.bounds.x + border.base.bounds.w - border.border_widths.right
    /\ border.base.bounds.y + border.border_widths.top <= p.y
    /\ p.y < border.base.bounds.y + border.base.bounds.h - border.border_widths.bottom

InBounds(item, p) ==
    /\ item.base.bounds.x <= p.x /\ p.x < item.base.bounds.x + item.base.bounds.w
    /\ item.base.bounds.y <= p.y /\ p.y < item.base.bounds.y + item.base.bounds.h

InRect(r, p) == r.x <= p.x /\ p.x < r.x + r.w /\ r.y <= p.y /\ p.y < r.y + r.h

\* No rect of the clip, the main one or one of the complex ones, excludes the point.
ClipAdmits(item, p) ==
    /\ InRect(item.base.clip.main, p)
    /\ \A k \in 1..Len(item.base.clip.complex) : InRect(item.base.clip.complex[k].rect, p)

(***************************************************************************)
(* C18: hit_test on a list with a context that is not fixed and whose      *)
(* transform is not invertible returns normally, without a fatal error;    *)
(* the result holds no metadata of an item inside the bracket of that      *)
(* context, and the items outside such brackets have been tested when it   *)
(* returns.                                                                *)
(***************************************************************************)
C18_NotInvertibleUnreachable ==
    request.call = "hit_test" =>
        /\ status # "panicked"
        /\ \A i \in Hit : i \in Reachable
        /\ status = "returned" =>
              \A i \in Reachable : \E k \in 1..Len(tested) : tested[k].index = i

(***************************************************************************)
(* C19: for a Border item whose bounds contain the point, whose clip might *)
(* intersect the point and whose pointing is set, hit_test yields nothing  *)
(* exactly when the point lies in the bounds inset by the left, top, right *)
(* and bottom widths, and the metadata of the item for every other point   *)
(* of the bounds.  With bounds (0, 0, 100, 100) and widths of 10, the      *)
(* point (50, 50) misses, (5, 50) and (5, 5) hit.                          *)
(***************************************************************************)
C19_BorderInterior ==
    (/\ ItemTested
     /\ TestedItem.variant = "Border"
     /\ InBounds(TestedItem, TestedPoint)
     /\ ClipAdmits(TestedItem, TestedPoint)
     /\ TestedItem.base.metadata.pointing # <<>>) =>
        /\ result = <<>> <=> InInterior(TestedItem, TestedPoint)
        /\ ~InInterior(TestedItem, TestedPoint) => result = <<TestedItem.base.metadata>>
        /\ (/\ TestedItem.base.bounds = Rect(0, 0, 100 * AU_PER_PX, 100 * AU_PER_PX)
            /\ \A side \in {"top", "right", "bottom", "left"} :
                  TestedItem.border_widths[side] = 10 * AU_PER_PX) =>
              /\ TestedPoint = Point(50 * AU_PER_PX, 50 * AU_PER_PX) => result = <<>>
              /\ TestedPoint \in {Point(5 * AU_PER_PX, 50 * AU_PER_PX),
                                  Point(5 * AU_PER_PX, 5 * AU_PER_PX)} => result # <<>>

\* The corner of the border band of the example is hit.
C19_Witness ==
    /\ ItemTested
    /\ TestedItem.variant = "Border"
    /\ TestedItem.base.bounds = Rect(0, 0, 100 * AU_PER_PX, 100 * AU_PER_PX)
    /\ TestedItem.border_widths.left = 10 * AU_PER_PX
    /\ TestedItem.border_widths.top = 10 * AU_PER_PX
    /\ TestedPoint = Point(5 * AU_PER_PX, 5 * AU_PER_PX)
    /\ result = <<TestedItem.base.metadata>>

(***************************************************************************)
(* C20: an item that is not a bracket gives its metadata to the result of  *)
(* a hit test only if its bounds contain the point, no rect of its clip    *)
(* excludes the point and its pointing is set; a BoxShadow gives nothing   *)
(* for any point, and so does an item whose pointing is none.              *)
(***************************************************************************)
C20_ContributesOnlyIf ==
    ItemTested =>
        /\ result # <<>> =>
              /\ result = <<TestedItem.base.metadata>>
              /\ InBounds(TestedItem, TestedPoint)
              /\ ClipAdmits(TestedItem, TestedPoint)
              /\ TestedItem.base.metadata.pointing # <<>>
        /\ TestedItem.variant = "BoxShadow" => result = <<>>
        /\ TestedItem.base.metadata.pointing = <<>> => result = <<>>

\* An item under a clip with a rounded rect gives its metadata.
C20_Witness ==
    /\ ItemTested
    /\ TestedItem.variant = "SolidColor"
    /\ TestedItem.base.clip.complex # <<>>
    /\ result = <<TestedItem.base.metadata>>

(***************************************************************************)
(* C21: the list hit_test returns holds the metadata of the items that     *)
(* hit in increasing order of their index in the list, the order of        *)
(* painting: of two items that hit, the one with the smaller index comes   *)
(* first, and each item that hits has exactly one entry.                   *)
(***************************************************************************)
C21_HitsInPaintOrder ==
    request.call = "hit_test" =>
        LET hits == SelectSeq(tested,
                              LAMBDA t : DisplayItem_hit_test(ItemAt(t.index), t.point) # <<>>)
        IN  /\ \A a, b \in 1..Len(tested) : a < b => tested[a].index < tested[b].index
            /\ result = [k \in 1..Len(hits) |-> ItemAt(hits[k].index).base.metadata]

\* Two items hit, and the later one of the pool is the earlier one of the list.
C21_Witness ==
    /\ request.call = "hit_test"
    /\ status = "returned"
    /\ Len(result) = 2
    /\ result[1].node = 2
    /\ result[2].node = 1

\* The context that the k-th activation of hit_test_contents works for, and
\* the point its caller worked with.
FrameContext(k) == CHOOSE n \in TreeNodes : n.id = frames[k].stacking_context_id
CallerPoint(k) == frames[k - 1].translated_point

\* The point of the caller in the space of the context, before any scrolling.
Unscrolled(k) ==
    LET inv == Inverse(FrameContext(k).transform)[1]
    IN  Point(FromF32Px(inv.sx * ToF32Px(CallerPoint(k).x - FrameContext(k).bounds.x) + inv.tx),
              FromF32Px(inv.sy * ToF32Px(CallerPoint(k).y - FrameContext(k).bounds.y) + inv.ty))

ScrollOffsetOf(id) ==
    Point(FromF32Px(request.scroll_offsets[id].x), FromF32Px(request.scroll_offsets[id].y))

(***************************************************************************)
(* C22: on entering a stacking context during a hit test, a fixed context  *)
(* works with client_point as it is, with no scroll offset subtracted; any *)
(* other context has the scroll offset stored for its id subtracted        *)
(* exactly when it is not the root, and a context without an entry in the  *)
(* map of scroll offsets gets no adjustment.                               *)
(***************************************************************************)
C22_FixedAndScrolledPoints ==
    request.call = "hit_test" =>
        \A k \in 2..Len(frames) :
            LET ctx == FrameContext(k)
                used == frames[k].translated_point
            IN  IF ctx.layer_info = FixedPosition
                THEN used = request.client_point
                ELSE IF ctx.id # RootId /\ ctx.id \in DOMAIN request.scroll_offsets
                THEN /\ used.x = Unscrolled(k).x - ScrollOffsetOf(ctx.id).x
                     /\ used.y = Unscrolled(k).y - ScrollOffsetOf(ctx.id).y
                ELSE used = Unscrolled(k)

\* The root and its child have entries in the map and neither is fixed: the
\* root gets no adjustment, the child gets its own.
C22_Witness ==
    /\ request.call = "hit_test"
    /\ DOMAIN request.scroll_offsets = {RootId, 1}
    /\ \E a, b \in 2..Len(frames) :
          /\ FrameContext(a).id = 1
          /\ FrameContext(a).layer_info # FixedPosition
          /\ frames[a].translated_point # Unscrolled(a)
          /\ FrameContext(b).id = RootId
          /\ FrameContext(b).layer_info # FixedPosition
          /\ frames[b].translated_point = Unscrolled(b)

(***************************************************************************)
(* Vocabulary of the properties of clipping regions: the points a region   *)
(* lets through.  A rounded rect lets a point of its rect through unless   *)
(* the point is in the box of a corner and outside the ellipse of that     *)
(* corner.                                                                 *)
(***************************************************************************)
GridPoints == {Point(x, y) : x, y \in -3..12}

\* The point (dx, dy) away from the centre of an ellipse with the given radii is outside it.
OutsideEllipse(dx, dy, radius) ==
    dx * dx * radius.height * radius.height + dy * dy * radius.width * radius.width
        > radius.width * radius.width * radius.height * radius.height

CutByCorner(dx, dy, radius) ==
    /\ radius.width > 0 /\ radius.height > 0
    /\ dx > 0 /\ dy > 0
    /\ OutsideEllipse(dx, dy, radius)

InRounded(c, p) ==
    /\ InRect(c.rect, p)
    /\ ~CutByCorner(c.rect.x + c.radii.top_left.width - p.x,
                    c.rect.y + c.radii.top_left.height - p.y, c.radii.top_left)
    /\ ~CutByCorner(p.x - (max_x(c.rect) - c.radii.top_right.width),
                    c.rect.y + c.radii.top_right.height - p.y, c.radii.top_right)
    /\ ~CutByCorner(p.x - (max_x(c.rect) - c.radii.bottom_right.width),
                    p.y - (max_y(c.rect) - c.radii.bottom_right.height), c.radii.bottom_right)
    /\ ~CutByCorner(c.rect.x + c.radii.bottom_left.width - p.x,
                    p.y - (max_y(c.rect) - c.radii.bottom_left.height), c.radii.bottom_left)

\* The effective clip: main and every complex rounded rect.
InRegion(r, p) == InRect(r.main, p) /\ \A i \in 1..Len(r.complex) : InRounded(r.complex[i], p)

\* The region removes no point of the rect.
FullyContains(r, rect) == \A p \in GridPoints : InRect(rect, p) => InRegion(r, p)

Called(call) == request.call = call

(***************************************************************************)
(* C23: BaseDisplayItem::new stores ClippingRegion::max() as the clip of   *)
(* the item whenever the given clip fully contains the given bounds, that  *)
(* is, every point of the bounds is in the clip region; this includes a    *)
(* clip without complex entries whose main rect equals the bounds.  In     *)
(* every other case it stores the given clip unchanged.                    *)
(***************************************************************************)
C23_ClipCanonicalized ==
    Called("BaseDisplayItem::new") =>
        /\ result[1].clip = IF FullyContains(request.clip, request.bounds)
                            THEN ClippingRegion_max
                            ELSE request.clip
        /\ request.clip = ClippingRegion_from_rect(request.bounds) =>
              result[1].clip = ClippingRegion_max

(***************************************************************************)
(* C24: does_not_clip_rect errs toward keeping the clip.  Whenever it      *)
(* returns true for a rect, the effective clip region, which is main       *)
(* intersected with every complex rounded rect with its corner radii,      *)
(* removes no point of that rect; so the rewrite to max in                 *)
(* BaseDisplayItem::new never enlarges the visible area of an item.        *)
(***************************************************************************)
C24_RewriteKeepsVisibleArea ==
    Called("BaseDisplayItem::new") =>
        /\ does_not_clip_rect(request.clip, request.bounds) =>
              FullyContains(request.clip, request.bounds)
        /\ \A p \in GridPoints :
              (InRect(request.bounds, p) /\ InRegion(result[1].clip, p)) =>
                  InRegion(request.clip, p)

\* The two rects have no point in common.
Disjoint(a, b) == \A p \in GridPoints : ~(InRect(a, p) /\ InRect(b, p))

\* The rect from the larger of the two origins to the smaller of the two far corners.
CommonRect(a, b) ==
    Rect(Max(a.x, b.x), Max(a.y, b.y),
         Min(a.x + a.w, b.x + b.w) - Max(a.x, b.x),
         Min(a.y + a.h, b.y + b.h) - Max(a.y, b.y))

Interior(c) ==
    LET left == Max(c.radii.top_left.width, c.radii.bottom_left.width)
        top == Max(c.radii.top_left.height, c.radii.top_right.height)
        right == Max(c.radii.top_right.width, c.radii.bottom_right.width)
        bottom == Max(c.radii.bottom_left.height, c.radii.bottom_right.height)
    IN  [x0 |-> c.rect.x + left, y0 |-> c.rect.y + top,
         x1 |-> c.rect.x + c.rect.w - right, y1 |-> c.rect.y + c.rect.h - bottom]

\* The rect of b lies inside the interior of a.
Encloses(a, b) ==
    /\ Interior(a).x0 <= b.rect.x /\ b.rect.x + b.rect.w <= Interior(a).x1
    /\ Interior(a).y0 <= b.rect.y /\ b.rect.y + b.rect.h <= Interior(a).y1

OldComplex == request.self.complex
NewComplex == [rect |-> request.rect, radii |-> request.radii]
Enclosing == {i \in 1..Len(OldComplex) : Encloses(OldComplex[i], NewComplex)}
Enclosed == {i \in 1..Len(OldComplex) : Encloses(NewComplex, OldComplex[i])}

(***************************************************************************)
(* C26: intersect_with_rounded_rect(r, radii) leaves main unchanged and    *)
(* changes the complex list in exactly one of three ways.  If some         *)
(* existing entry completely encloses the new one, that entry is replaced  *)
(* by the new one and the length is unchanged; if the new one completely   *)
(* encloses an existing entry, the list is unchanged; otherwise the new    *)
(* entry is appended.  The length never grows by more than one and never   *)
(* shrinks.                                                                *)
(***************************************************************************)
C26_RoundedRectThreeWays ==
    Called("intersect_with_rounded_rect") =>
        /\ region.main = request.self.main
        /\ Enclosing # {} =>
              \E i \in Enclosing : region.complex = [OldComplex EXCEPT ![i] = NewComplex]
        /\ (Enclosing = {} /\ Enclosed # {}) => region.complex = OldComplex
        /\ (Enclosing = {} /\ Enclosed = {}) => region.complex = Append(OldComplex, NewComplex)
        /\ Len(region.complex) \in {Len(OldComplex), Len(OldComplex) + 1}

\* The first entry, in list order, that encloses the new one or that the new one encloses.
FirstMatch == CHOOSE i \in Enclosing \cup Enclosed : \A j \in Enclosing \cup Enclosed : i <= j

(***************************************************************************)
(* C26, amended: intersect_with_rounded_rect(r, radii) leaves main         *)
(* unchanged, and the first existing entry, in list order, that completely *)
(* encloses the new one or is completely enclosed by it decides: if it     *)
(* encloses the new one it is replaced by the new one, otherwise the list  *)
(* is unchanged, whatever the later entries are.  If no entry does either, *)
(* the new entry is appended.  The length never grows by more than one and *)
(* never shrinks.                                                          *)
(***************************************************************************)
C26_RoundedRectFirstMatch ==
    Called("intersect_with_rounded_rect") =>
        /\ region.main = request.self.main
        /\ (Enclosing \cup Enclosed # {} /\ FirstMatch \in Enclosing) =>
              region.complex = [OldComplex EXCEPT ![FirstMatch] = NewComplex]
        /\ (Enclosing \cup Enclosed # {} /\ FirstMatch \notin Enclosing) =>
              region.complex = OldComplex
        /\ Enclosing \cup Enclosed = {} => region.complex = Append(OldComplex, NewComplex)
        /\ Len(region.complex) \in {Len(OldComplex), Len(OldComplex) + 1}

\* The new entry encloses the first entry and is enclosed by a later one: the
\* list stays as it was.
C26_Witness ==
    /\ Called("intersect_with_rounded_rect")
    /\ Enclosing # {}
    /\ FirstMatch \notin Enclosing
    /\ \A i \in Enclosing : OldComplex[i] # NewComplex
    /\ region.complex = OldComplex

(***************************************************************************)
(* C27: the enclosure test has no false positive.  completely_encloses is  *)
(* true only if the rect of the other region lies inside the interior of   *)
(* this one, its rect inset on each edge by the larger corner radius; so   *)
(* replacing or discarding an entry in intersect_with_rounded_rect never   *)
(* makes the effective clip region larger than the old region intersected  *)
(* with the new rounded rect.                                              *)
(***************************************************************************)
C27_EnclosureNoFalsePositive ==
    Called("intersect_with_rounded_rect") =>
        /\ \A i \in 1..Len(OldComplex) :
              /\ completely_encloses(OldComplex[i], NewComplex) => Encloses(OldComplex[i], NewComplex)
              /\ completely_encloses(NewComplex, OldComplex[i]) => Encloses(NewComplex, OldComplex[i])
        /\ \A p \in GridPoints :
              InRegion(region, p) => (InRegion(request.self, p) /\ InRounded(NewComplex, p))

\* An entry with round corners is replaced by a rect that fits its interior.
C27_Witness ==
    /\ Called("intersect_with_rounded_rect")
    /\ \E i \in 1..Len(OldComplex) :
          /\ OldComplex[i].radii = BorderRadii_all_same(4)
          /\ Encloses(OldComplex[i], NewComplex)
          /\ OldComplex[i] # NewComplex
          /\ region.complex = [OldComplex EXCEPT ![i] = NewComplex]

Shifted(r, delta) == Rect(r.x + delta.x, r.y + delta.y, r.w, r.h)

(***************************************************************************)
(* C28: translate(delta) does not modify the receiver and returns a region *)
(* whose main and every complex rect are translated by delta, with the     *)
(* same number and order of complex entries and unchanged radii;           *)
(* translate(delta) followed by translate(-delta) gives a region equal to  *)
(* the original (integers within bounds, no overflow).                     *)
(***************************************************************************)
C28_TranslatePure ==
    Called("translate") =>
        LET back == Point(0 - request.delta.x, 0 - request.delta.y)
        IN  /\ region = request.self
            /\ result[1].main = Shifted(region.main, request.delta)
            /\ Len(result[1].complex) = Len(region.complex)
            /\ \A i \in 1..Len(region.complex) :
                  /\ result[1].complex[i].rect = Shifted(region.complex[i].rect, request.delta)
                  /\ result[1].complex[i].radii = region.complex[i].radii
            /\ translate(result[1], back) = region

\* A region with two complex entries of different radii is translated.
C28_Witness ==
    /\ Called("translate")
    /\ Len(region.complex) >= 2
    /\ region.complex[1].radii # region.complex[2].radii
    /\ result[1] # region

(***************************************************************************)
(* Vocabulary of the properties of the ordering of stacking contexts.      *)
(***************************************************************************)
ReverseOrdering(ordering) ==
    CASE ordering = "Less" -> "Greater"
      [] ordering = "Greater" -> "Less"
      [] ordering = "Equal" -> "Equal"

NotGreater(a, b) == cmp(a, b) \in {"Less", "Equal"}

(***************************************************************************)
(* C29: the ordering of stacking contexts is a consistent total preorder   *)
(* over all combinations of z_index and context_type: cmp(a, b) is the     *)
(* reverse of cmp(b, a), and cmp is transitive (a <= b and b <= c give     *)
(* a <= c, and Equal is transitive), so that sorting children with it is   *)
(* well defined.                                                           *)
(***************************************************************************)
C29_CmpTotalPreorder ==
    /\ Called("cmp") =>
          /\ result[1] = ReverseOrdering(cmp(request.other, request.self))
          /\ result[1] \in {"Less", "Equal", "Greater"}
    /\ \A a, b, c \in contexts :
          /\ cmp(a, b) = ReverseOrdering(cmp(b, a))
          /\ (NotGreater(a, b) /\ NotGreater(b, c)) => NotGreater(a, c)
          /\ (cmp(a, b) = "Equal" /\ cmp(b, c) = "Equal") => cmp(a, c) = "Equal"

\* A negative context, a float and a non-float of z-index 0 are in hand, and
\* the float has been compared with the non-float.
C29_Witness ==
    /\ Called("cmp")
    /\ request.self.z_index = 0 /\ request.self.context_type = "PseudoFloat"
    /\ request.other.z_index = 0 /\ request.other.context_type = "Real"
    /\ result = <<"Less">>
    /\ \E a \in contexts : a.z_index < 0

(***************************************************************************)
(* Vocabulary of the properties of fatal errors.                           *)
(***************************************************************************)
\* The entry the traversal returned last.
LastItem == ItemAt(traversal.next_item_index - 1)

IsFatalItem(item) ==
    \/ item.variant = "WebGL"
    \/ item.variant = "Image" /\ item.image_data = <<>>

\* The item is not culled by the tile rect of the innermost activation.
PassesTileTest(item) ==
    \/ frames[Len(frames)].tile_rect = <<>>
    \/ /\ RectIntersects(frames[Len(frames)].tile_rect[1], item.base.bounds)
       /\ might_intersect_rect(item.base.clip, frames[Len(frames)].tile_rect[1])

(***************************************************************************)
(* C30: painting an item reaches a fatal error exactly when the painted    *)
(* item is a WebGL item or an Image item without image data; every other   *)
(* step of painting or hit testing returns normally.  The fatal error      *)
(* occurs only for items that pass the tile-intersection test.             *)
(***************************************************************************)
C30_FatalOnlyForWebGLAndImage ==
    /\ status = "panicked" =>
          /\ Called("draw_into_context")
          /\ ~IsMarker(LastItem)
          /\ IsFatalItem(LastItem)
          /\ PassesTileTest(LastItem)
    /\ Called("draw_into_context") => \A q \in painted : ~IsFatalItem(ItemAt(q.index))

(***************************************************************************)
(* Several cursors over one list.                                          *)
(***************************************************************************)
\* What the cursor returns when it runs alone from where it was made: the
\* items of its slice, then None.
RunAlone(c) == Drain(c.made) \o <<None>>

Prefix(s, t) == Len(s) <= Len(t) /\ s = SubSeq(t, 1, Len(s))

Ops(op) == SelectSeq(trace, LAMBDA e : e.op = op)

\* The items draw_with_state has met in its last arm, in order.
Offered == Ops("item")

\* The indices below the cursor, in list order.
Consumed == [i \in 1..traversal.next_item_index |-> i - 1]

Painting == traversal # NoTraversal /\ request.call = "draw_into_context"

\* Nothing has been culled and no composed transform was singular so far.
Undisturbed == Painting /\ Decided("culled") = {} /\ Decided("not_invertible") = {}

(***************************************************************************)
(* C32: in a replay of the whole list in which no context is culled and    *)
(* every composed transform is invertible, the items met so far are the    *)
(* non-bracket entries below the cursor, each once and in list order, each *)
(* met while the active draw_stacking_context frames were the contexts     *)
(* whose brackets enclose it; once the last Pop is consumed no such frame  *)
(* is left, and the replay returns with every entry consumed.              *)
(***************************************************************************)
C32_FramesFollowBrackets ==
    Undisturbed =>
        /\ [k \in 1..Len(Offered) |-> Offered[k].index] = NonBrackets(Consumed)
        /\ \A k \in 1..Len(Offered) : Offered[k].value = EnclosingChain(Offered[k].index)
        /\ traversal.next_item_index = Len(list) => Chain = <<>>
        /\ status = "returned" => traversal.next_item_index = Len(list) /\ frames = <<>>

\* A finished replay that met an item in a nested context and then an item
\* of the context around it.
C32_Witness ==
    /\ Undisturbed
    /\ status = "returned"
    /\ \E j, k \in 1..Len(Offered) :
          /\ j < k
          /\ Len(Offered[j].value) = 2
          /\ Len(Offered[k].value) = 1

\* How often the last arm of draw_with_state has met the entry.
TimesOffered(i) == Cardinality({k \in 1..Len(Offered) : Offered[k].index = i})

\* The non-bracket entries of the context whose frame culled d.id that
\* follow the Pop of d.id.
FollowingInParent(d) ==
    {i \in 0..(Len(list) - 1) :
        /\ ~IsMarker(ItemAt(i))
        /\ EnclosingChain(i) = d.chain
        /\ \A b \in PopPos(d.id) : i + 1 > b}

(***************************************************************************)
(* C33: culling a child context does not disturb the rest of the replay:   *)
(* every item that follows the Pop of the culled child in the bracket of   *)
(* the same parent is met at most once and only in the frame of that       *)
(* parent, and exactly once when the replay has returned.  (Lists in which *)
(* every transform is invertible.)                                         *)
(***************************************************************************)
C33_CullingLeavesRestAlone ==
    (AllInvertible /\ Painting) =>
        \A d \in Decided("culled") : \A i \in FollowingInParent(d) :
            /\ TimesOffered(i) <= 1
            /\ \A k \in 1..Len(Offered) : Offered[k].index = i => Offered[k].value = d.chain
            /\ status = "returned" => TimesOffered(i) = 1

\* The places of the log, after place i, where the draw_stacking_context
\* that was called at depth d returns.
Returns(i, d) == {j \in (i + 1)..Len(trace) : trace[j].op = "return" /\ trace[j].depth = d}

Least(S) == CHOOSE j \in S : \A k \in S : j <= k

(***************************************************************************)
(* C34: a get_or_create_temporary_draw_target of draw_stacking_context is  *)
(* followed, before that draw_stacking_context returns, by exactly one     *)
(* draw_temporary_draw_target_if_necessary for the target it gave, and the *)
(* transform of the draw target of the caller's paint context is then the  *)
(* one saved on entry; on every path, that of a singular transform         *)
(* included.                                                               *)
(***************************************************************************)
C34_TemporaryTargetDrawnBack ==
    \A i \in 1..Len(trace) :
        (trace[i].op = "get_or_create_temporary_draw_target" /\ Returns(i, trace[i].depth) # {}) =>
            LET j == Least(Returns(i, trace[i].depth))
            IN  /\ Cardinality({k \in (i + 1)..(j - 1) :
                        /\ trace[k].op = "draw_temporary_draw_target_if_necessary"
                        /\ trace[k].depth = trace[i].depth
                        /\ trace[k].target = trace[i].target}) = 1
                /\ trace[j].value = trace[i].value

(***************************************************************************)
(* Vocabulary of transforms and subpixel offsets.                          *)
(***************************************************************************)
Abs(n) == IF n >= 0 THEN n ELSE -n

\* The whole number of pixels nearest to a length, the one farther from
\* zero when two are as near.
NearestPixel(au) ==
    CHOOSE p \in -8..8 :
        /\ 2 * Abs(au - p * AU_PER_PX) <= AU_PER_PX
        /\ \A q \in -8..8 : 2 * Abs(au - q * AU_PER_PX) <= AU_PER_PX => Abs(q) <= Abs(p)

\* m maps every point as outer maps the point that inner gives, moved by
\* (x, y) pixels; two points settle it for a scale and a translation.
MapsAs(m, outer, x, y, inner) ==
    \A q \in {Point(0, 0), Point(1, 1)} :
        TransformPoint(m, q) =
            TransformPoint(outer, LET r == TransformPoint(inner, q) IN Point(r.x + x, r.y + y))

IdentityOrTranslation(m) == \A q \in {Point(0, 0), Point(1, 1)} :
                                LET r == TransformPoint(m, q)
                                    o == TransformPoint(m, Point(0, 0))
                                IN  r = Point(q.x + o.x, q.y + o.y)

(***************************************************************************)
(* C35: the draw_with_state that draw_stacking_context calls for a context *)
(* with layer_info gets the transform and the subpixel offset of the       *)
(* caller unchanged.  For a context without, it gets the caller's          *)
(* transform composed with the translation to the pixel-snapped origin     *)
(* (the origin of the bounds plus the caller's subpixel offset) and then   *)
(* the transform of the context; its subpixel offset is zero, unless that  *)
(* transform is the identity or a translation, when it is what the         *)
(* snapping took off the origin.                                           *)
(***************************************************************************)
C35_LayerInheritsTransform ==
    Painting =>
        \A k \in 2..Len(frames) :
            LET context == FrameContext(k)
                caller == frames[k - 1]
                x == context.bounds.x + caller.subpixel_offset.x
                y == context.bounds.y + caller.subpixel_offset.y
            IN  IF context.layer_info # <<>>
                THEN /\ frames[k].transform = caller.transform
                     /\ frames[k].subpixel_offset = caller.subpixel_offset
                ELSE /\ MapsAs(frames[k].transform, caller.transform,
                               NearestPixel(x), NearestPixel(y), context.transform)
                     /\ frames[k].subpixel_offset =
                            IF IdentityOrTranslation(frames[k].transform)
                            THEN Point(x - NearestPixel(x) * AU_PER_PX,
                                       y - NearestPixel(y) * AU_PER_PX)
                            ELSE Point(0, 0)

\* A box was painted in a flipped context half a pixel off the grid, whose
\* subpixel offset is zero, and the replay is now in a context with a
\* layer that has a subpixel offset from its parent.
C35_Witness ==
    /\ Painting
    /\ \E q \in painted :
          /\ q.frame.transform.sx = -1
          /\ q.frame.subpixel_offset = Point(0, 0)
          /\ \E n \in TreeNodes : /\ n.id = q.frame.stacking_context_id
                                  /\ n.layer_info = <<>>
                                  /\ n.bounds.x % AU_PER_PX # 0
    /\ \E k \in 2..Len(frames) :
          /\ FrameContext(k).layer_info # <<>>
          /\ frames[k].subpixel_offset # Point(0, 0)
          /\ FrameContext(k).transform # Identity

(***************************************************************************)
(* Vocabulary of transient clips.                                          *)
(***************************************************************************)
\* The log goes on after place i, or has room left: what the step of place
\* i logged after it is in the log.
Complete(i) == i < Len(trace) \/ Len(trace) < MaxTrace

\* Place i of the log is a call of item.draw_into_context.
IsDrawCall(i) == trace[i].op = "draw_into_context"

\* That call pushed a transient clip.
Pushed(i) ==
    /\ i < Len(trace)
    /\ trace[i + 1].op = "push_transient_clip"
    /\ trace[i + 1].index = trace[i].index
    /\ trace[i + 1].depth = trace[i].depth
    /\ trace[i + 1].value = <<trace[i].value.clip>>

\* Between places i and j the replay stays in one loop of draw_with_state: it
\* only meets and draws items.
SameRun(i, j) ==
    /\ i < j
    /\ trace[i].depth = trace[j].depth
    /\ \A k \in (i + 1)..(j - 1) :
          trace[k].op \in {"item", "draw_into_context", "push_transient_clip", "draw"}

\* Place j is the first call of item.draw_into_context of its frame.
FirstOfFrame(j) ==
    \E s \in 1..(j - 1) :
        /\ trace[s].op = "push_clip_if_applicable"
        /\ trace[s].depth = trace[j].depth
        /\ \A k \in (s + 1)..(j - 1) : trace[k].op = "item"

(***************************************************************************)
(* C36: a call of item.draw_into_context pushes a transient clip exactly   *)
(* when the paint context of the frame has none or one that differs from   *)
(* the clip of the item; the first call in a frame finds none; a call that *)
(* follows another in the same run of items finds the clip of that one, so *)
(* that a run of items with equal clips has one push; and a frame that     *)
(* ends removes its transient clip and then pops its clip.                 *)
(***************************************************************************)
C36_TransientClipPerFrame ==
    /\ \A i \in 1..Len(trace) : (IsDrawCall(i) /\ Complete(i)) =>
          (Pushed(i) <=> trace[i].value.transient_clip # <<trace[i].value.clip>>)
    /\ \A j \in 1..Len(trace) : (IsDrawCall(j) /\ FirstOfFrame(j)) =>
          trace[j].value.transient_clip = <<>>
    /\ \A i, j \in 1..Len(trace) :
          (IsDrawCall(i) /\ IsDrawCall(j) /\ SameRun(i, j)) =>
              /\ trace[j].value.transient_clip # <<>>
              /\ (\A k \in (i + 1)..(j - 1) : ~IsDrawCall(k)) =>
                    trace[j].value.transient_clip = <<trace[i].value.clip>>
    /\ \A j \in 1..Len(trace) : trace[j].op = "pop_clip_if_applicable" =>
          /\ j > 1
          /\ trace[j - 1].op = "remove_transient_clip_if_applicable"
          /\ trace[j - 1].depth = trace[j].depth

\* In one frame, two boxes with the same clip were drawn with one push,
\* and the frame has ended.
C36_Witness ==
    \E i, j, e \in 1..Len(trace) :
        /\ IsDrawCall(i) /\ IsDrawCall(j) /\ SameRun(i, j)
        /\ trace[i].depth > 1
        /\ Pushed(i) /\ ~Pushed(j)
        /\ trace[i].value.clip # ClippingRegion_max
        /\ j < e
        /\ trace[e].op = "pop_clip_if_applicable"
        /\ trace[e].depth = trace[i].depth

(***************************************************************************)
(* Vocabulary of the points of a hit test.                                 *)
(***************************************************************************)
HitTesting == traversal # NoTraversal /\ request.call = "hit_test"

RECURSIVE PointAlong(_, _)
\* The point of the request taken through the first n contexts of a chain.
PointAlong(chain, n) ==
    IF n = 0 THEN request.translated_point
    ELSE ContextPoint(CHOOSE c \in TreeNodes : c.id = chain[n], PointAlong(chain, n - 1))

\* The point for the innermost context whose bracket encloses entry i.
PointFor(i) == PointAlong(EnclosingChain(i), Len(EnclosingChain(i)))

(***************************************************************************)
(* C37: when every context of the list is fixed or has a transform with an *)
(* inverse, hit_test examines the non-bracket entries below its cursor,    *)
(* each once and in list order, each with the point computed for the       *)
(* innermost context whose bracket encloses it (so an item that follows a  *)
(* nested bracket is tested with the point of its own context), and it     *)
(* returns with every entry consumed and no activation left.               *)
(***************************************************************************)
C37_HitTestExaminesEachOnce ==
    (HitTesting /\ Unreachable = {}) =>
        /\ [k \in 1..Len(tested) |-> tested[k].index] = NonBrackets(Consumed)
        /\ \A k \in 1..Len(tested) : tested[k].point = PointFor(tested[k].index)
        /\ status \in {"hit_testing", "returned"}
        /\ status = "returned" => traversal.next_item_index = Len(list) /\ frames = <<>>

\* A finished hit test that examined an item of a nested context and then
\* an item of the context around it, with different points.
C37_Witness ==
    /\ HitTesting /\ Unreachable = {}
    /\ status = "returned"
    /\ \E j, k \in 1..Len(tested) :
          /\ j < k
          /\ Len(EnclosingChain(tested[j].index)) = 2
          /\ Len(EnclosingChain(tested[k].index)) = 1
          /\ tested[j].point # tested[k].point

(***************************************************************************)
(* C38: every PushStackingContext of an assembled list carries a context   *)
(* of the tree whose context_type is Real and whose children are empty,    *)
(* and the Pop that closes it names the id of the carried context.         *)
(***************************************************************************)
ClosingPop(i) ==
    {j \in Indices : j > i /\ IsPop(list[j]) /\ BalancedRange(i + 1, j - 1)}

C38_PushCarriesEmptiedReal ==
    Assembled =>
        \A i \in Indices :
            IsPush(list[i]) =>
                LET carried == list[i].stacking_context
                IN  /\ carried.context_type = "Real"
                    /\ carried.children = <<>>
                    /\ \E n \in TreeNodes : carried = [n EXCEPT !.children = <<>>]
                    /\ Cardinality(ClosingPop(i)) = 1
                    /\ \A j \in ClosingPop(i) : list[j].stacking_context_id = carried.id

\* A pushed context that had a Real and a pseudo child in the tree, whose
\* bracket encloses the bracket of the Real child.
C38_Witness ==
    /\ Assembled
    /\ \E i \in Indices, n \in TreeNodes :
          /\ IsPush(list[i])
          /\ list[i].stacking_context.id = n.id
          /\ \E a, b \in 1..Len(n.children) :
                /\ n.children[a].context_type = "Real"
                /\ n.children[b].context_type # "Real"
          /\ \E j \in ClosingPop(i) : PushCount(i + 1, j - 1) > 0

(***************************************************************************)
(* C39: at every skip_to_end_of_stacking_context of a replay, of the whole *)
(* list or of a slice of it, the cursor after the skip is below            *)
(* last_item_index, which is what the debug_assert of the skip states.     *)
(***************************************************************************)
Skips == {i \in DOMAIN trace : trace[i].op = "skip_to_end_of_stacking_context"}

C39_SkipAssertionHolds ==
    /\ \A i \in Skips : trace[i].value[1] < trace[i].value[2]
    /\ request.call = "draw_into_context" => status # "panicked"

(***************************************************************************)
(* C40: when draw_item_at_index_into_context(transform, index) has         *)
(* returned, item.draw_into_context was called once, for the item at       *)
(* index and after the transform was set, and has drawn it when it is an   *)
(* item that draws; nothing of another index was drawn; the transform of   *)
(* the draw target is what it was before the call; and there is no         *)
(* traversal, cursor or frame.                                             *)
(***************************************************************************)
ItemCalls == {i \in DOMAIN trace : trace[i].op \in {"draw_into_context", "draw",
                                                     "push_transient_clip"}}

C40_DrawsOneItemAndRestores ==
    (request.call = "draw_item_at_index_into_context" /\ status = "returned") =>
        /\ \A i \in ItemCalls : trace[i].index = request.index
        /\ Cardinality({i \in ItemCalls : trace[i].op = "draw_into_context"}) = 1
        /\ Cardinality({i \in ItemCalls : trace[i].op = "draw"}) =
               (IF DisplayItem_draw_into_context(ItemAt(request.index)) THEN 1 ELSE 0)
        /\ trace[1].op = "set_transform"
        /\ trace[1].value = <<request.transform>>
        /\ \A i \in ItemCalls : i > 1
        /\ draw_targets[paint_contexts[1].draw_target] = request.old_transform
        /\ traversal = NoTraversal
        /\ cursors = <<>>
        /\ frames = <<>>

\* The call, with a transform that is not the one of the draw target, for
\* a box of a list that holds another box.
C40_Witness ==
    /\ request.call = "draw_item_at_index_into_context"
    /\ status = "returned"
    /\ request.transform # request.old_transform
    /\ ~IsMarker(ItemAt(request.index))
    /\ \E j \in 0..(Len(list) - 1) : j # request.index /\ ~IsMarker(ItemAt(j))
    /\ \E i \in ItemCalls : trace[i].op = "draw"

=============================================================================
